---- MODULE Spec2Model ----
(***************************************************************************)
(* State machine of WalletConnectWallet (src/src/adapter.ts): the session  *)
(* lifecycle (connect, checkConnectStatus, disconnect), the signing        *)
(* operations, the session_update / session_delete handlers, and the       *)
(* transport and approval UI they talk to, modelled at their interface.    *)
(*                                                                         *)
(* Strings are sequences of one-character strings, so that split(':') and  *)
(* JSON.stringify are computed and not assumed.  An async method is a call *)
(* slot with a program counter; every await is a point where other calls   *)
(* and notifications may run.                                              *)
(***************************************************************************)
EXTENDS Integers, Sequences, FiniteSets, TLC

\* ------------------------------------------------------------------ bounds
MaxCalls == 2      \* call slots: calls of the adapter that can overlap
MaxTopics == 2     \* session topics the transport hands out
MaxInits == 2      \* UniversalProvider.init attempts
MaxOrphans == 1    \* cancelled pairing proposals not yet expired
MaxSubs == 2       \* calls of subscribeModalState / subscribeEvents
MaxListeners == 2  \* listener functions the application registers with on()
MaxAccounts == 2   \* account strings of a namespace handed to the address functions
MaxNamespaces == 2 \* namespaces of a session handed to the address functions

Calls == 1..MaxCalls
Topics == 1..MaxTopics
Inits == 1..MaxInits
Subs == 1..MaxSubs
Listeners == 1..MaxListeners
EventNames == {"accountsChanged", "disconnect"}

\* ------------------------------------------------------------- data values
Undefined == <<"undefined">>    \* JS undefined, where a string may stand

\* Account strings "t:c:A" and "t:c:B"
AccA == <<"t", ":", "c", ":", "A">>
AccB == <<"t", ":", "c", ":", "B">>

\* session.namespaces: the account lists of its namespaces, in key order
NsA == << <<AccA>> >>
NsBA == << <<AccB>>, <<AccA>> >>
NsEmpty == << <<>> >>
NsPool == {NsA, NsBA, NsEmpty}

\* Account strings "t:c", "t:c:", "", "t:c:A:x" and "A"
AccTwo == <<"t", ":", "c">>
AccEmptyThird == <<"t", ":", "c", ":">>
AccEmpty == << >>
AccFour == <<"t", ":", "c", ":", "A", ":", "x">>
AccOne == <<"A">>
AccountPool == {AccA, AccB, AccTwo, AccEmptyThird, AccEmpty, AccFour, AccOne}

\* namespace.accounts of up to MaxAccounts account strings
AccountLists == UNION {[1..n -> AccountPool] : n \in 0..MaxAccounts}

\* session.namespaces of up to MaxNamespaces namespaces
NamespacePool == UNION {[1..n -> AccountLists] : n \in 0..MaxNamespaces}

NoParams == << << <<"none">> >> >>    \* an update notification without params.namespaces

\* session.sessionProperties: its key/value pairs, none when it is absent
NoProperties == << >>
PropsV1 == << <<"tron_method_version", "v1">> >>
PropsV2 == << <<"tron_method_version", "v2">> >>
PropsOther == << <<"tron_network", "v1">> >>
PropertiesPool == {NoProperties, PropsV1, PropsV2, PropsOther}

\* sessionProperties?.[key]: the empty set for undefined
Lookup(props, key) == {props[k][2] : k \in {n \in 1..Len(props) : props[n][1] = key}}

\* the arguments of signTransaction() and signMessage()
TxA == [txID |-> "a"]
TxB == [txID |-> "b"]
Transactions == {TxA, TxB}
Message == "m"

\* this._session === undefined; of a session the adapter holds, the model
\* keeps the fields the adapter reads
NoSession == [topic |-> 0, namespaces |-> << >>, sessionProperties |-> NoProperties]

SampleSessions ==
    [topic : {1}, namespaces : NamespacePool, sessionProperties : {NoProperties}]

\* -------------------------------------------------------- string functions
RECURSIVE SplitFrom(_, _, _)
SplitFrom(s, i, cur) ==
    IF i > Len(s) THEN <<cur>>
    ELSE IF s[i] = ":" THEN <<cur>> \o SplitFrom(s, i + 1, << >>)
    ELSE SplitFrom(s, i + 1, Append(cur, s[i]))

\* account.split(':')
Split(s) == SplitFrom(s, 1, << >>)

\* account.split(':')[2] of each account string, computed once
ThirdSegments ==
    [account \in AccountPool |->
        LET parts == Split(account) IN IF Len(parts) >= 3 THEN parts[3] ELSE Undefined]

\* account.split(':')[2]
ThirdSegment(account) == ThirdSegments[account]

\* !!x of a string or undefined
Truthy(s) == s # Undefined /\ s # << >>

RECURSIVE FlatMapAccounts(_)
FlatMapAccounts(namespaces) ==
    IF namespaces = << >> THEN << >>
    ELSE Head(namespaces) \o FlatMapAccounts(Tail(namespaces))

RECURSIVE MapThirdReversed(_)
MapThirdReversed(accounts) ==
    IF accounts = << >> THEN << >>
    ELSE MapThirdReversed(Tail(accounts)) \o <<ThirdSegment(Head(accounts))>>

RECURSIVE MapThird(_)
MapThird(accounts) ==
    IF accounts = << >> THEN << >>
    ELSE <<ThirdSegment(Head(accounts))>> \o MapThird(Tail(accounts))

FilterNothing(list) == list

\* .filter((addr): addr is string => !!addr)
FilterAddresses(list) == SelectSeq(list, Truthy)

extractAllAddressesFromSession(sess) ==
    LET accounts == FlatMapAccounts(sess.namespaces) IN
    IF Len(accounts) = 0 THEN << >>
    ELSE FilterAddresses(MapThird(accounts))

extractAddressOrEmpty(sess) ==
    LET accounts == FlatMapAccounts(sess.namespaces) IN
    IF Len(accounts) = 0 \/ ~Truthy(accounts[1]) \/ ~Truthy(ThirdSegment(accounts[1]))
    THEN [ok |-> TRUE, address |-> << >>]
    ELSE [ok |-> TRUE, address |-> ThirdSegment(accounts[1])]

extractAddressUnchecked(sess) ==
    LET accounts == FlatMapAccounts(sess.namespaces) IN
    IF Len(accounts) = 0 \/ ~Truthy(accounts[1]) \/ Len(Split(accounts[1])) < 3
    THEN [ok |-> FALSE, address |-> Undefined]
    ELSE [ok |-> TRUE, address |-> ThirdSegment(accounts[1])]

\* [ok |-> FALSE] stands for the thrown Error
extractAddressFromSession(sess) ==
    LET accounts == FlatMapAccounts(sess.namespaces) IN
    IF Len(accounts) = 0 \/ ~Truthy(accounts[1])
    THEN [ok |-> FALSE, address |-> Undefined]
    ELSE LET a == ThirdSegment(accounts[1]) IN
         IF ~Truthy(a) THEN [ok |-> FALSE, address |-> Undefined]
         ELSE [ok |-> TRUE, address |-> a]

RECURSIVE JoinQuoted(_)
JoinQuoted(list) ==
    IF list = << >> THEN << >>
    ELSE <<"\"">> \o Head(list) \o <<"\"">>
         \o (IF Len(list) > 1 THEN <<",">> ELSE << >>) \o JoinQuoted(Tail(list))

\* JSON.stringify of an array of strings
JSONstringify(list) == <<"[">> \o JoinQuoted(list) \o <<"]">>


\* ------------------------------------------------------------------- state
VARIABLES
    projectId,        \* this._options.projectId is a non-empty string
    overlap,          \* the application calls a method while another is in flight
    provider,         \* this.provider: 0, or the init attempt that created it
    providerPromise,  \* this.providerPromise: 0 (null), or the init attempt
    client,           \* this._client: 0, or the provider whose client it is
    session,          \* this._session, NoSession for undefined
    address,          \* this.address
    sessionHandlers,  \* this.sessionHandlers: handler ids, 0 for absent
    appKit,           \* this.appKit exists
    tSessions,        \* the transport's session store, in registration order
    initOutcome,      \* UniversalProvider.init attempts
    regUpdate,        \* handlers registered for 'session_update' on the client
    regDelete,        \* handlers registered for 'session_delete' on the client
    providerSession,  \* provider.session?.topic, 0 for none
    orphans,          \* pairing proposals whose connect() was cancelled
    lateTopics,       \* history: the stored sessions approved after such a cancel
    uiOpen,           \* the approval UI's state.open
    calls,            \* the calls of the adapter's async methods in flight
    settled,          \* the call the last step settled, with its result
    events,           \* what the last step passed to emit()
    requests,         \* what the last step passed to client.request()
    thrown,           \* the last step's notification handler threw
    delivered,        \* the notification the last step delivered to a handler
    pendingModalCallbacks,     \* this.pendingModalCallbacks, a record is its number
    pendingEventCallbacks,     \* this.pendingEventCallbacks
    modalStateUnsubscribers,   \* this.modalStateUnsubscribers, a handle is its record's number
    eventUnsubscribers,        \* this.eventUnsubscribers
    closures,         \* the unsubscribe closures returned to the application
    ctlSubs,          \* the callbacks subscribed on the UI controller
    unsubscribed,     \* the real unsubscribe handles the last step invoked
    notified,         \* the subscribed callbacks the last step invoked
    eventListeners,   \* this.eventListeners: per event, its listeners in insertion order
    raising,          \* the listeners of the application that throw when called
    invoked,          \* the listeners the last step called, with their events
    sample,           \* a session handed to the two address functions
    extracted         \* what the two functions made of it

configVars == <<projectId, overlap>>
listenerVars == <<eventListeners, raising>>
sampleVars == <<sample, extracted>>
adapterVars == <<provider, providerPromise, client, session, address, sessionHandlers, appKit>>
transportVars == <<tSessions, initOutcome, regUpdate, regDelete, providerSession, orphans,
                  lateTopics>>
envVars == <<tSessions, initOutcome, providerSession, orphans, lateTopics>>
cacheVars == <<pendingModalCallbacks, pendingEventCallbacks, modalStateUnsubscribers,
               eventUnsubscribers, closures, ctlSubs>>
vars == <<configVars, adapterVars, transportVars, uiOpen, calls, settled, events, requests,
          thrown, delivered, cacheVars, unsubscribed, notified, listenerVars, invoked,
          sampleVars>>

NoHandlers == [update |-> 0, delete |-> 0]

\* new Map<string, Set<Function>>(), with a key for each event
NoListeners == [accountsChanged |-> << >>, disconnect |-> << >>]

UndefinedAddress == Undefined

EmptyAddress == << >>     \* the '' of {address: ''}

IdleCall ==
    [op |-> "none", pc |-> "idle", att |-> 0, result |-> "none", address |-> Undefined,
     sess |-> NoSession, isModalOpen |-> FALSE, topic |-> 0,
     \* history of the call, for stating properties
     hadSession |-> FALSE, ctx |-> "none", path |-> "none",
     wrote |-> FALSE, armed |-> FALSE, emitted |-> 0]

\* no closure returned yet
NoClosure == [kind |-> "none", cached |-> FALSE, fn |-> FALSE, called |-> "never"]

\* nothing extracted yet
NotExtracted == [done |-> FALSE, all |-> << >>, current |-> [ok |-> FALSE, address |-> Undefined]]

NoSample == sample = NoSession /\ extracted = NotExtracted

InitCommon ==
    /\ eventListeners = NoListeners
    /\ invoked = << >>
    /\ pendingModalCallbacks = << >>
    /\ pendingEventCallbacks = << >>
    /\ modalStateUnsubscribers = << >>
    /\ eventUnsubscribers = << >>
    /\ closures = [r \in Subs |-> NoClosure]
    /\ ctlSubs = {}
    /\ unsubscribed = << >>
    /\ notified = {}
    /\ projectId \in BOOLEAN
    /\ provider = 0
    /\ providerPromise = 0
    /\ client = 0
    /\ session = NoSession
    /\ address = Undefined
    /\ sessionHandlers = NoHandlers
    /\ appKit = FALSE
    /\ tSessions = << >>
    /\ initOutcome = [a \in Inits |-> "none"]
    /\ regUpdate = {}
    /\ regDelete = {}
    /\ providerSession = 0
    /\ orphans = 0
    /\ lateTopics = {}
    /\ uiOpen = FALSE
    /\ calls = [i \in Calls |-> IdleCall]
    /\ settled = IdleCall
    /\ events = << >>
    /\ requests = << >>
    /\ thrown = FALSE
    /\ delivered = "none"

\* The application awaits each call before it makes the next, as in the
\* README's usage (`await wallet.connect()`, `await wallet.disconnect()`);
\* notifications and the user act at any time.
Init == InitCommon /\ overlap = FALSE /\ raising = {} /\ NoSample

\* The application calls connect() and checkConnectStatus() without
\* awaiting the calls it made before.
InitOverlapping == InitCommon /\ overlap = TRUE /\ raising = {} /\ NoSample

\* One of the application's listeners throws whenever it is called.
InitListeners == InitCommon /\ overlap = FALSE /\ raising = {1} /\ NoSample

\* The sessions a wallet can hand over: up to two namespaces of up to two
\* account strings each, well-formed or not.
InitSample ==
    /\ InitCommon /\ overlap = FALSE /\ raising = {}
    /\ sample \in SampleSessions
    /\ extracted = NotExtracted

\* --------------------------------------------------------------- transport
TopicsOf(store) == {store[k].topic : k \in 1..Len(store)}

\* what the adapter holds of a transport record
AsSession(s) ==
    [topic |-> s.topic, namespaces |-> s.namespaces, sessionProperties |-> s.sessionProperties]

\* client.session.get(topic); NoSession stands for the thrown "no matching key"
SessionGet(store, t) ==
    IF t \in TopicsOf(store)
    THEN AsSession(store[CHOOSE k \in 1..Len(store) : store[k].topic = t])
    ELSE NoSession

RemoveTopic(store, t) == SelectSeq(store, LAMBDA s : s.topic # t)

\* the stores a provider can restore from persistence: up to two sessions
StoredSession ==
    [topic : Topics, acknowledged : BOOLEAN, namespaces : NsPool,
     sessionProperties : {NoProperties}]

\* the sessions a wallet can approve, with the properties it declares
ApprovedSession ==
    [topic : Topics, acknowledged : BOOLEAN, namespaces : NsPool,
     sessionProperties : PropertiesPool]
SingleStores == {<< >>} \cup {<<s>> : s \in StoredSession}

PersistedStores ==
    SingleStores
    \cup {p \in StoredSession \X StoredSession : p[1].topic # p[2].topic}

\* ------------------------------------------------------- adapter, helpers
AllSessions(store) == store

\* client.find(getConnectParams(network)).filter(s => s.acknowledged)
AcknowledgedSessions(store) == SelectSeq(store, LAMBDA s : s.acknowledged)

FirstSession(sessions) == AsSession(sessions[1])

\* sessions[sessions.length - 1]
LastSession(sessions) == AsSession(sessions[Len(sessions)])

\* a handler id neither registered nor referenced: a new closure
FreshHandler(used) == CHOOSE h \in 1..(Cardinality(used) + 1) : h \notin used

OffHandlersForgotten(st) ==
    [sessionHandlers |-> NoHandlers, regUpdate |-> st.regUpdate, regDelete |-> st.regDelete]

\* cleanup() of setupSessionListeners, and the same lines of disconnect():
\* st is [sessionHandlers, regUpdate, regDelete]
OffHandlers(st) ==
    [sessionHandlers |-> NoHandlers,
     regUpdate |-> st.regUpdate \ {st.sessionHandlers.update},
     regDelete |-> st.regDelete \ {st.sessionHandlers.delete}]

\* setupSessionListeners(): cleanup(), then register two new closures
setupSessionListeners(cl, sess, st) ==
    IF cl = 0 \/ sess = NoSession THEN st
    ELSE LET off == OffHandlers(st)
             h == FreshHandler(off.regUpdate \cup off.regDelete)
         IN [sessionHandlers |-> [update |-> h, delete |-> h],
             regUpdate |-> off.regUpdate \cup {h},
             regDelete |-> off.regDelete \cup {h}]

AccountsChanged(list) == [name |-> "accountsChanged", args |-> list]

\* listener(...args) for each listener of the list in turn; an error a
\* listener throws is caught and logged, or else ends the loop and leaves
\* it: the listeners called, in order, and whether an error leaves the loop
RECURSIVE CallListeners(_, _)
CallListeners(list, caught) ==
    IF list = << >> THEN [invoked |-> << >>, propagated |-> FALSE]
    ELSE IF Head(list) \in raising /\ ~caught
    THEN [invoked |-> <<Head(list)>>, propagated |-> TRUE]
    ELSE LET rest == CallListeners(Tail(list), caught)
         IN [invoked |-> <<Head(list)>> \o rest.invoked, propagated |-> rest.propagated]

ForEachUncaught(list) == CallListeners(list, FALSE)

\* forEach(listener => { try { listener(...args) } catch (error) {
\* console.error(...) } })
ForEach(list) == CallListeners(list, TRUE)

\* this.eventListeners.get(event)?.forEach(...)
emit(event) == ForEach(eventListeners[event.name])

\* the listener calls of a step that emitted the events evs
RECURSIVE Invocations(_)
Invocations(evs) ==
    IF evs = << >> THEN << >>
    ELSE LET name == Head(evs).name
             called == emit(Head(evs)).invoked
         IN [k \in 1..Len(called) |-> [event |-> name, listener |-> called[k]]]
            \o Invocations(Tail(evs))
Disconnected == [name |-> "disconnect", args |-> << >>]

HandlerState == [sessionHandlers |-> sessionHandlers, regUpdate |-> regUpdate,
                 regDelete |-> regDelete]

\* The adoption of a session, the same lines in connect() (resume and
\* approval) and checkConnectStatus(): store it, derive the address (which
\* may throw), arm the listeners, emit accountsChanged.
Adopt(sess) ==
    LET ext == extractAddressFromSession(sess)
        st == setupSessionListeners(provider', sess, HandlerState)
    IN /\ session' = sess
       /\ client' = provider'
       /\ IF ext.ok
          THEN /\ address' = ext.address
               /\ sessionHandlers' = st.sessionHandlers
               /\ regUpdate' = st.regUpdate
               /\ regDelete' = st.regDelete
               /\ events' = <<AccountsChanged(extractAllAddressesFromSession(sess))>>
          ELSE /\ UNCHANGED <<address, sessionHandlers, regUpdate, regDelete>>
               /\ events' = << >>
       /\ invoked' = IF events' = << >> THEN << >> ELSE Invocations(events')

\* what Adopt leaves in the call that ran it
Adopted(c, sess, path) ==
    LET ext == extractAddressFromSession(sess) IN
    [c EXCEPT !.path = path, !.wrote = TRUE, !.armed = ext.ok,
              !.emitted = IF ext.ok THEN 1 ELSE 0,
              !.result = IF ~ext.ok THEN "MalformedSession"
                         ELSE IF emit(AccountsChanged(extractAllAddressesFromSession(sess))).propagated
                         THEN "ListenerError"
                         ELSE "ok",
              !.address = ext.address]

\* The UI's state subscribers of connect() (modalClosePromise): each racing
\* call sees state.open; an open call that sees it closed is rejected, and
\* its finally block calls close().
WatcherRejectsStale(c, open) == c.pc = "racing" /\ open /\ ~open

WatcherRejects(c, open) == c.pc = "racing" /\ c.isModalOpen /\ ~open

\* the rejection is noted, the approval is still awaited
NotifyWatchersNoAbort(cs, open) ==
    [i \in Calls |->
        IF cs[i].pc \in {"racing", "approved"}
        THEN IF WatcherRejects(cs[i], open)
             THEN [cs[i] EXCEPT !.result = "UserCancelled", !.isModalOpen = open]
             ELSE [cs[i] EXCEPT !.isModalOpen = open]
        ELSE cs[i]]

NotifyWatchers(cs, open) ==
    [i \in Calls |->
        IF cs[i].pc \in {"racing", "approved"}
        THEN IF WatcherRejects(cs[i], open)
             THEN [cs[i] EXCEPT !.pc = "closing", !.result = "UserCancelled",
                                !.isModalOpen = open]
             ELSE [cs[i] EXCEPT !.isModalOpen = open]
        ELSE cs[i]]

Cancelled(cs, open) == Cardinality({i \in Calls : WatcherRejects(cs[i], open)})

Min(a, b) == IF a < b THEN a ELSE b

Free(i) == calls[i].pc = "idle"

\* a call takes the first free slot; calls overlap only if the application
\* lets them
CanStart(i) ==
    /\ Free(i)
    /\ \A j \in Calls : j < i => ~Free(j)
    /\ overlap \/ \A j \in Calls : Free(j)

NewCall(op) == [IdleCall EXCEPT !.op = op, !.hadSession = (session # NoSession)]

NoCacheOutput == unsubscribed' = << >> /\ notified' = {}

NoAdapterOutput ==
    /\ events' = << >> /\ requests' = << >> /\ thrown' = FALSE /\ delivered' = "none"
    /\ invoked' = << >>

NoOutput == NoAdapterOutput /\ NoCacheOutput

\* call i goes on as c
Continue(i, c) == calls' = [calls EXCEPT ![i] = c] /\ settled' = IdleCall

\* call i settles as c with the result
Settle(i, c, result) ==
    /\ calls' = [calls EXCEPT ![i] = IdleCall]
    /\ settled' = [c EXCEPT !.pc = "done", !.result = result]


\* ------------------------------------------------------ subscription cache
\* the cache and the controller's subscribers as one value, with the handles
\* an operation invokes
CacheState ==
    [pendingModalCallbacks |-> pendingModalCallbacks,
     pendingEventCallbacks |-> pendingEventCallbacks,
     modalStateUnsubscribers |-> modalStateUnsubscribers,
     eventUnsubscribers |-> eventUnsubscribers,
     closures |-> closures, ctlSubs |-> ctlSubs, unsubscribed |-> << >>]

SetCache(st) ==
    /\ pendingModalCallbacks' = st.pendingModalCallbacks
    /\ pendingEventCallbacks' = st.pendingEventCallbacks
    /\ modalStateUnsubscribers' = st.modalStateUnsubscribers
    /\ eventUnsubscribers' = st.eventUnsubscribers
    /\ closures' = st.closures
    /\ ctlSubs' = st.ctlSubs
    /\ unsubscribed' = st.unsubscribed

Range(seq) == {seq[k] : k \in 1..Len(seq)}

\* list.splice(list.indexOf(x), 1): an index of -1 removes the last element
SpliceUnchecked(list, x) ==
    IF x \in Range(list) THEN SelectSeq(list, LAMBDA y : y # x)
    ELSE SubSeq(list, 1, Len(list) - 1)

\* const index = list.indexOf(x); if (index > -1) list.splice(index, 1)
Splice(list, x) ==
    IF x \in Range(list)
    THEN LET k == CHOOSE k \in 1..Len(list) :
                      list[k] = x /\ \A j \in 1..(k - 1) : list[j] # x
         IN SubSeq(list, 1, k - 1) \o SubSeq(list, k + 1, Len(list))
    ELSE list

ReleaseModalStateOnly(st) ==
    [st EXCEPT !.unsubscribed = @ \o st.modalStateUnsubscribers,
               !.ctlSubs = @ \ Range(st.modalStateUnsubscribers),
               !.modalStateUnsubscribers = << >>]

\* the two `while (list.length > 0) list.shift()()` loops of
\* setupModalListeners() and disconnect(): every handle of both lists is
\* invoked, modal-state handles first
ReleaseSubscriptions(st) ==
    [st EXCEPT !.unsubscribed = @ \o st.modalStateUnsubscribers \o st.eventUnsubscribers,
               !.ctlSubs = @ \ (Range(st.modalStateUnsubscribers)
                                \cup Range(st.eventUnsubscribers)),
               !.modalStateUnsubscribers = << >>,
               !.eventUnsubscribers = << >>]

DrainPendingWithoutRef(st) ==
    [st EXCEPT !.ctlSubs = @ \cup Range(st.pendingModalCallbacks)
                            \cup Range(st.pendingEventCallbacks),
               !.modalStateUnsubscribers = @ \o st.pendingModalCallbacks,
               !.eventUnsubscribers = @ \o st.pendingEventCallbacks,
               !.pendingModalCallbacks = << >>,
               !.pendingEventCallbacks = << >>]

\* the two drain loops of setupModalListeners(): each pending record, in
\* queue order, is subscribed on the controller, its handle pushed on the
\* active list and written to the record's unsubscribeRef
DrainPending(st) ==
    LET drained == Range(st.pendingModalCallbacks) \cup Range(st.pendingEventCallbacks)
    IN [st EXCEPT !.ctlSubs = @ \cup drained,
                  !.modalStateUnsubscribers = @ \o st.pendingModalCallbacks,
                  !.eventUnsubscribers = @ \o st.pendingEventCallbacks,
                  !.closures = [r \in Subs |->
                                   IF r \in drained THEN [@[r] EXCEPT !.fn = TRUE] ELSE @[r]],
                  !.pendingModalCallbacks = << >>,
                  !.pendingEventCallbacks = << >>]

setupModalListeners(st) == DrainPending(ReleaseSubscriptions(st))

\* the callbacks the controller calls for a state change or an event
Subscribers(kind) == {r \in ctlSubs : closures[r].kind = kind}

\* subscribeModalState(callback) / subscribeEvents(callback): the record
\* and its closure get the next free number
Subscribe(kind) ==
    \E r \in Subs :
        /\ closures[r].kind = "none"
        /\ \A q \in Subs : q < r => closures[q].kind # "none"
        /\ IF ~appKit
           THEN /\ closures' = [closures EXCEPT ![r] = [kind |-> kind, cached |-> TRUE,
                                                       fn |-> FALSE, called |-> "never"]]
                /\ pendingModalCallbacks' =
                      IF kind = "state" THEN Append(pendingModalCallbacks, r)
                      ELSE pendingModalCallbacks
                /\ pendingEventCallbacks' =
                      IF kind = "events" THEN Append(pendingEventCallbacks, r)
                      ELSE pendingEventCallbacks
                /\ UNCHANGED <<modalStateUnsubscribers, eventUnsubscribers, ctlSubs>>
           ELSE /\ closures' = [closures EXCEPT ![r] = [kind |-> kind, cached |-> FALSE,
                                                       fn |-> TRUE, called |-> "never"]]
                /\ ctlSubs' = ctlSubs \cup {r}
                /\ modalStateUnsubscribers' =
                      IF kind = "state" THEN Append(modalStateUnsubscribers, r)
                      ELSE modalStateUnsubscribers
                /\ eventUnsubscribers' =
                      IF kind = "events" THEN Append(eventUnsubscribers, r)
                      ELSE eventUnsubscribers
                /\ UNCHANGED <<pendingModalCallbacks, pendingEventCallbacks>>
        /\ NoOutput
        /\ settled' = IdleCall
        /\ UNCHANGED <<configVars, listenerVars, sampleVars, adapterVars, transportVars, uiOpen, calls>>

SubscribeModalState == Subscribe("state")

SubscribeEvents == Subscribe("events")

\* the closure only knows the real handle
CallClosureHandleOnly(st, r) ==
    IF st.closures[r].fn
    THEN [st EXCEPT !.unsubscribed = Append(@, r), !.ctlSubs = @ \ {r}]
    ELSE st

\* a closure with a handle calls it and splices it from the active list; a
\* closure of a pending record without a handle splices the record from the
\* queue.  A handle called again finds nothing to remove on the controller.
CallClosure(st, r) ==
    LET c == st.closures[r]
    IN IF c.fn
       THEN [st EXCEPT
                !.unsubscribed = Append(@, r),
                !.ctlSubs = @ \ {r},
                !.modalStateUnsubscribers =
                    IF c.kind = "state" THEN Splice(@, r) ELSE @,
                !.eventUnsubscribers =
                    IF c.kind = "events" THEN Splice(@, r) ELSE @]
       ELSE [st EXCEPT
                !.pendingModalCallbacks =
                    IF c.kind = "state" THEN Splice(@, r) ELSE @,
                !.pendingEventCallbacks =
                    IF c.kind = "events" THEN Splice(@, r) ELSE @]

\* history: whether the first call of closure r came before or after the
\* controller was created
MarkCalled(st, r) ==
    [st EXCEPT !.closures[r].called =
                  IF @ # "never" THEN @ ELSE IF appKit THEN "after" ELSE "before"]

\* the application calls the closure that subscribe call r returned
Unsubscribe(r) ==
    /\ closures[r].kind # "none"
    /\ SetCache(MarkCalled(CallClosure(CacheState, r), r))
    /\ NoAdapterOutput
    /\ notified' = {}
    /\ settled' = IdleCall
    /\ UNCHANGED <<configVars, listenerVars, sampleVars, adapterVars, transportVars, uiOpen, calls>>

\* the UI controller publishes an event to its event subscribers
UiEvent ==
    /\ appKit
    /\ notified' = Subscribers("events")
    /\ unsubscribed' = << >>
    /\ NoAdapterOutput
    /\ settled' = IdleCall
    /\ UNCHANGED <<configVars, listenerVars, sampleVars, cacheVars, adapterVars, transportVars, uiOpen, calls>>


PromiseNeverMemoized == FALSE

\* this.providerPromise is set: an attempt is in flight or has resolved
PromiseMemoized == providerPromise # 0

ProjectIdIgnored == FALSE

\* if (!projectId)
ProjectIdMissing == ~projectId

\* ------------------------------------------------------------ getProvider
\* connect() and checkConnectStatus() start with getProvider(), which runs
\* up to its await: an existing provider is returned, an attempt in flight
\* is shared, and otherwise a new UniversalProvider.init is started, unless
\* the projectId is missing.
CallLifecycle(i, op) ==
    /\ CanStart(i)
    /\ NoOutput
    /\ UNCHANGED <<configVars, listenerVars, sampleVars, cacheVars, provider, client, session, address, sessionHandlers,
                   appKit, tSessions, regUpdate, regDelete, providerSession, orphans, lateTopics,
                   uiOpen>>
    /\ IF provider # 0
       THEN /\ Continue(i, [NewCall(op) EXCEPT !.pc = "awaitProvider"])
            /\ UNCHANGED <<providerPromise, initOutcome>>
       ELSE IF PromiseMemoized
       THEN /\ Continue(i, [NewCall(op) EXCEPT !.pc = "awaitProvider",
                                               !.att = providerPromise])
            /\ UNCHANGED <<providerPromise, initOutcome>>
       ELSE IF ProjectIdMissing
       THEN /\ Settle(i, NewCall(op), "ConfigError")
            /\ UNCHANGED <<providerPromise, initOutcome>>
       ELSE \E a \in Inits :
            /\ initOutcome[a] = "none"
            /\ \A b \in Inits : b < a => initOutcome[b] # "none"
            /\ providerPromise' = a
            /\ initOutcome' = [initOutcome EXCEPT ![a] = "pending"]
            /\ Continue(i, [NewCall(op) EXCEPT !.pc = "awaitProvider", !.att = a])

CallConnect(i) == CallLifecycle(i, "connect")

CallCheckConnectStatus(i) == CallLifecycle(i, "checkConnectStatus")

\* UniversalProvider.init resolves: the provider exists, with the sessions
\* and the last session it restores from persistence.
InitResolveFrom(a, stores) ==
    /\ initOutcome[a] = "pending"
    /\ initOutcome' = [initOutcome EXCEPT ![a] = "ok"]
    /\ \E store \in stores :
          /\ tSessions' = store
          /\ providerSession' \in {0} \cup TopicsOf(store)
    /\ NoOutput
    /\ settled' = IdleCall
    /\ UNCHANGED <<configVars, listenerVars, sampleVars, cacheVars, adapterVars, regUpdate, regDelete, orphans, lateTopics, uiOpen, calls>>

\* the provider of an application that was connected before
InitResolve(a) == InitResolveFrom(a, PersistedStores)

\* the provider of an application that has held at most one session
InitResolveSingle(a) == InitResolveFrom(a, SingleStores)

\* the provider of an application that has never held a session
InitResolveFresh(a) == InitResolveFrom(a, {<< >>})

PromiseKept(promise) == promise

\* .catch(error => { this.providerPromise = null; throw error })
PromiseReset(promise) == 0

\* UniversalProvider.init rejects: the catch handler resets providerPromise.
InitReject(a) ==
    /\ initOutcome[a] = "pending"
    /\ initOutcome' = [initOutcome EXCEPT ![a] = "fail"]
    /\ providerPromise' = PromiseReset(providerPromise)
    /\ NoOutput
    /\ settled' = IdleCall
    /\ UNCHANGED <<configVars, listenerVars, sampleVars, cacheVars, provider, client, session, address, sessionHandlers, appKit,
                   tSessions, regUpdate, regDelete, providerSession, orphans, lateTopics, uiOpen,
                   calls>>

\* ------------------------------------------- connect / checkConnectStatus
ResumableSeveral(sessions) == Len(sessions) > 1

\* if (sessions.length): the resume path is taken
Resumable(sessions) == Len(sessions) > 0

\* The call resumes after `await this.getProvider()`: the rest of
\* getProvider, then the session query (which may throw) and the resume
\* path; without a session to resume, checkConnectStatus returns
\* {address: ''} and connect creates the AppKit if there is none and calls
\* open().
ResumeOrOpen(i, findOk) ==
    LET c == calls[i]
        sessions == AcknowledgedSessions(tSessions)
    IN
    /\ provider' = IF c.att = 0 THEN provider ELSE c.att
    /\ requests' = << >>
    /\ thrown' = FALSE
    /\ delivered' = "none"
    /\ notified' = {}
    /\ IF findOk /\ ~Resumable(sessions) /\ c.op = "connect" /\ ~appKit
       THEN SetCache(setupModalListeners(CacheState))
       ELSE UNCHANGED cacheVars /\ unsubscribed' = << >>
    /\ UNCHANGED <<configVars, listenerVars, sampleVars, providerPromise, envVars, uiOpen>>
    /\ IF ~findOk
       THEN /\ Settle(i, c, "TransportError")
            /\ client' = IF c.att = 0 THEN client ELSE c.att
            /\ events' = << >>
            /\ invoked' = << >>
            /\ UNCHANGED <<session, address, sessionHandlers, appKit, regUpdate,
                           regDelete>>
       ELSE IF Resumable(sessions)
       THEN /\ Adopt(LastSession(sessions))
            /\ LET a == Adopted(c, LastSession(sessions), "resume")
               IN Settle(i, a, a.result)
            /\ UNCHANGED appKit
       ELSE /\ client' = IF c.att = 0 THEN client ELSE c.att
            /\ events' = << >>
            /\ invoked' = << >>
            /\ UNCHANGED <<session, address, sessionHandlers, regUpdate, regDelete>>
            /\ IF c.op = "checkConnectStatus"
               THEN /\ Settle(i, [c EXCEPT !.address = EmptyAddress], "ok")
                    /\ UNCHANGED appKit
               ELSE /\ appKit' = TRUE
                    /\ Continue(i, [c EXCEPT !.pc = "opening", !.path = "first"])

\* a rejected attempt that no other call awaits is garbage: its number is
\* free for the next attempt
Forget(outcome, a, i) ==
    IF \E j \in Calls \ {i} : calls[j].pc = "awaitProvider" /\ calls[j].att = a
    THEN outcome
    ELSE [outcome EXCEPT ![a] = "none"]

AfterProvider(i) ==
    /\ calls[i].pc = "awaitProvider"
    /\ IF calls[i].att = 0 THEN \E findOk \in BOOLEAN : ResumeOrOpen(i, findOk)
       ELSE \/ /\ initOutcome[calls[i].att] = "ok"
               /\ \E findOk \in BOOLEAN : ResumeOrOpen(i, findOk)
            \/ /\ initOutcome[calls[i].att] = "fail"
               /\ Settle(i, calls[i], "InitError")
               /\ NoOutput
               /\ initOutcome' = Forget(initOutcome, calls[i].att, i)
               /\ UNCHANGED <<configVars, listenerVars, sampleVars, cacheVars, adapterVars, tSessions, regUpdate, regDelete,
                              providerSession, orphans, lateTopics, uiOpen>>

\* appKit.open() resolves: the UI is open; connect() issues the pairing
\* request (provider.connect) and subscribes its close watcher.
UiOpenResolve(i) ==
    /\ calls[i].pc = "opening"
    /\ uiOpen' = TRUE
    /\ calls' = [NotifyWatchers(calls, TRUE) EXCEPT
                    ![i] = [calls[i] EXCEPT !.pc = "racing", !.isModalOpen = TRUE]]
    /\ settled' = IdleCall
    /\ NoAdapterOutput
    /\ unsubscribed' = << >>
    /\ notified' = Subscribers("state")
    /\ UNCHANGED <<configVars, listenerVars, sampleVars, cacheVars, adapterVars, transportVars>>

\* appKit.open() rejects: connect() rejects, outside its try block.
UiOpenReject(i) ==
    /\ calls[i].pc = "opening"
    /\ Settle(i, calls[i], "UiError")
    /\ NoOutput
    /\ UNCHANGED <<configVars, listenerVars, sampleVars, cacheVars, adapterVars, transportVars, uiOpen>>

\* The UI's state changes and its subscribers are told: the user closes it
\* (open = FALSE), or another field of the state changes.  A proposal
\* cancelled beyond MaxOrphans is taken to expire.
UiStateChange(open) ==
    /\ appKit
    /\ open => uiOpen
    /\ uiOpen' = open
    /\ calls' = NotifyWatchers(calls, open)
    /\ settled' = IdleCall
    /\ orphans' = Min(MaxOrphans, orphans + Cancelled(calls, open))
    /\ UNCHANGED lateTopics
    /\ NoAdapterOutput
    /\ unsubscribed' = << >>
    /\ notified' = Subscribers("state")
    /\ UNCHANGED <<configVars, listenerVars, sampleVars, cacheVars, adapterVars, tSessions, initOutcome, regUpdate, regDelete,
                   providerSession>>


\* The wallet approves the pairing: the transport registers the session,
\* the provider remembers it, and connectPromise resolves (isConnected).
ApprovalResolve(i, s) ==
    /\ calls[i].pc = "racing"
    /\ s.topic \notin TopicsOf(tSessions)
    /\ tSessions' = Append(tSessions, s)
    /\ providerSession' = s.topic
    /\ Continue(i, [calls[i] EXCEPT !.pc = "approved", !.sess = AsSession(s)])
    /\ NoOutput
    /\ UNCHANGED <<configVars, listenerVars, sampleVars, cacheVars, adapterVars, initOutcome, regUpdate, regDelete, orphans, lateTopics,
                   uiOpen>>

\* The pairing request fails: the race rejects, finally calls close().
ApprovalReject(i) ==
    /\ calls[i].pc = "racing"
    /\ Continue(i, [calls[i] EXCEPT !.pc = "closing", !.result = "TransportError"])
    /\ NoOutput
    /\ UNCHANGED <<configVars, listenerVars, sampleVars, cacheVars, adapterVars, transportVars, uiOpen>>

\* The wallet approves a pairing whose connect() was cancelled.
OrphanApproved(s) ==
    /\ orphans > 0
    /\ s.topic \notin TopicsOf(tSessions)
    /\ orphans' = orphans - 1
    /\ tSessions' = Append(tSessions, s)
    /\ providerSession' = s.topic
    /\ NoOutput
    /\ settled' = IdleCall
    /\ UNCHANGED <<configVars, listenerVars, sampleVars, cacheVars, adapterVars, initOutcome, regUpdate, regDelete, uiOpen,
                   calls>>

LateApproval(s) == OrphanApproved(s) /\ UNCHANGED lateTopics

\* the same step, with the session's topic kept in the history
LateApprovalRecorded(s) == OrphanApproved(s) /\ lateTopics' = lateTopics \cup {s.topic}

\* The transport marks a session acknowledged.
TransportAcknowledge(t) ==
    /\ \E k \in 1..Len(tSessions) :
          /\ tSessions[k].topic = t
          /\ ~tSessions[k].acknowledged
          /\ tSessions' = [tSessions EXCEPT ![k].acknowledged = TRUE]
    /\ NoOutput
    /\ settled' = IdleCall
    /\ UNCHANGED <<configVars, listenerVars, sampleVars, cacheVars, adapterVars, initOutcome, regUpdate, regDelete,
                   providerSession, orphans, lateTopics, uiOpen, calls>>

\* connect() after the race is won by the approval: the watcher is
\* unsubscribed, the session adopted, and finally calls close().
ConnectAdopt(i) ==
    /\ calls[i].pc = "approved"
    /\ provider' = provider
    /\ Adopt(calls[i].sess)
    /\ Continue(i, [Adopted(calls[i], calls[i].sess, "first") EXCEPT !.pc = "closing"])
    /\ requests' = << >>
    /\ thrown' = FALSE
    /\ delivered' = "none"
    /\ NoCacheOutput
    /\ UNCHANGED <<configVars, listenerVars, sampleVars, cacheVars, providerPromise, appKit, envVars, uiOpen>>

\* appKit.close() resolves: the UI is closed and connect() settles.
CloseResolve(i) ==
    /\ calls[i].pc = "closing"
    /\ uiOpen' = FALSE
    /\ calls' = [NotifyWatchers(calls, FALSE) EXCEPT ![i] = IdleCall]
    /\ settled' = [calls[i] EXCEPT !.pc = "done"]
    /\ orphans' = Min(MaxOrphans, orphans + Cancelled(calls, FALSE))
    /\ UNCHANGED lateTopics
    /\ NoAdapterOutput
    /\ unsubscribed' = << >>
    /\ notified' = Subscribers("state")
    /\ UNCHANGED <<configVars, listenerVars, sampleVars, cacheVars, adapterVars, tSessions, initOutcome, regUpdate, regDelete,
                   providerSession>>

\* ------------------------------------------------------------- disconnect
DisconnectTopicStoredOnly(sess, fallback) == sess.topic

\* the topic disconnect() resolves: this._session?.topic || provider.session?.topic
DisconnectTopic(sess, fallback) == IF sess.topic # 0 THEN sess.topic ELSE fallback

AfterDisconnectIfOk(st, ok) ==
    IF ok THEN [session |-> NoSession, address |-> Undefined] ELSE st

\* the finally block of disconnect(): whether or not the try block threw,
\* this._session and this.address become undefined
AfterDisconnect(st, ok) == [session |-> NoSession, address |-> Undefined]

ClearSession(ok) ==
    LET st == AfterDisconnect([session |-> session, address |-> address], ok) IN
    /\ session' = st.session
    /\ address' = st.address

DisconnectCleanupSkipped(st, cl) == st

\* if (this._client) { off(update); off(delete); this.sessionHandlers = {} }
DisconnectCleanup(st, cl) == IF cl # 0 THEN OffHandlers(st) ELSE st

\* disconnect() up to its await: the handlers come off the client, the topic
\* and the client are resolved (NotInitializedError without one, and the
\* finally block runs), and client.disconnect is called.
CallDisconnect(i) ==
    LET off == DisconnectCleanup(HandlerState, client)
        topic == DisconnectTopic(session, IF provider # 0 THEN providerSession ELSE 0)
        cl == IF provider # 0 THEN provider ELSE client
        c == NewCall("disconnect")
    IN
    /\ CanStart(i)
    /\ sessionHandlers' = off.sessionHandlers
    /\ regUpdate' = off.regUpdate
    /\ regDelete' = off.regDelete
    /\ NoAdapterOutput
    /\ SetCache(ReleaseSubscriptions(CacheState))
    /\ notified' = {}
    /\ UNCHANGED <<configVars, listenerVars, sampleVars, provider, providerPromise, client, appKit, envVars, uiOpen>>
    /\ IF topic = 0 \/ cl = 0
       THEN /\ ClearSession(FALSE)
            /\ Settle(i, c, "NotInitializedError")
       ELSE /\ UNCHANGED <<session, address>>
            /\ Continue(i, [c EXCEPT !.pc = "disconnecting", !.topic = topic])

\* client.disconnect settles: resolved, the transport has dropped the
\* session; rejected, it has not.  Either way the finally block runs.
DisconnectSettle(i, ok) ==
    /\ calls[i].pc = "disconnecting"
    /\ ok => calls[i].topic \in TopicsOf(tSessions)
    /\ tSessions' = IF ok THEN RemoveTopic(tSessions, calls[i].topic) ELSE tSessions
    /\ ClearSession(ok)
    /\ Settle(i, calls[i], IF ok THEN "ok" ELSE "TransportError")
    /\ NoOutput
    /\ UNCHANGED <<configVars, listenerVars, sampleVars, cacheVars, provider, providerPromise, client, sessionHandlers, appKit,
                   initOutcome, regUpdate, regDelete, providerSession, orphans,
                   uiOpen>>
    /\ lateTopics' = IF ok THEN lateTopics \ {calls[i].topic} ELSE lateTopics

\* ------------------------------------------------------------------ signing
CanSignClientOnly(cl, sess) == cl # 0

\* if (this._client && this._session)
CanSign(cl, sess) == cl # 0 /\ sess # NoSession

\* history: what the step before the call did to the session store
Context ==
    IF settled.op = "disconnect" THEN "afterDisconnect"
    ELSE IF events = <<Disconnected>> THEN "afterDelete"
    ELSE "none"

isV1MethodAnyVersion(sess) == Lookup(sess.sessionProperties, "tron_method_version") # {}

\* sessionProperties?.tron_method_version === 'v1'
isV1Method(sess) == Lookup(sess.sessionProperties, "tron_method_version") = {"v1"}

\* request.params of signTransaction(transaction)
TransactionParams(sess, addr, transaction) ==
    IF isV1Method(sess)
    THEN [address |-> addr, transaction |-> transaction]
    ELSE [address |-> addr, transaction |-> [transaction |-> transaction]]

\* request.params of signMessage(message)
MessageParams(addr, message) == [address |-> addr, message |-> message]

\* signTransaction() and signMessage() up to their await
CallSign(i, op, params) ==
    LET c == [NewCall(op) EXCEPT !.ctx = Context] IN
    /\ CanStart(i)
    /\ IF CanSign(client, session)
       THEN /\ requests' = <<[method |-> op, topic |-> session.topic, params |-> params]>>
            /\ Continue(i, [c EXCEPT !.pc = "signing"])
       ELSE /\ requests' = << >>
            /\ Settle(i, c, "NotInitializedError")
    /\ events' = << >>
    /\ invoked' = << >>
    /\ thrown' = FALSE
    /\ delivered' = "none"
    /\ NoCacheOutput
    /\ UNCHANGED <<configVars, listenerVars, sampleVars, cacheVars, adapterVars, transportVars, uiOpen>>

CallSignTransaction(i) ==
    \E transaction \in Transactions :
        CallSign(i, "tron_signTransaction", TransactionParams(session, address, transaction))

CallSignMessage(i) == CallSign(i, "tron_signMessage", MessageParams(address, Message))

\* client.request settles
SignSettle(i, ok) ==
    /\ calls[i].pc = "signing"
    /\ Settle(i, calls[i], IF ok THEN "ok" ELSE "TransportError")
    /\ NoOutput
    /\ UNCHANGED <<configVars, listenerVars, sampleVars, cacheVars, adapterVars, transportVars, uiOpen>>


\* ------------------------------------------------------ session handlers
\* { ...updated, namespaces: params?.namespaces || updated.namespaces }
MergeUpdate(updated, params) ==
    [updated EXCEPT !.namespaces = IF params # NoParams THEN params ELSE updated.namespaces]

AddressesAlwaysChanged(old, new) == TRUE

\* JSON.stringify(oldAddresses) !== JSON.stringify(newAddresses)
AddressesChanged(old, new) == JSONstringify(old) # JSONstringify(new)

UpdateIgnoredWithoutSession(sess, t) == sess = NoSession

\* if (!this._session || this._session.topic !== topic) return
UpdateIgnored(sess, t) == sess = NoSession \/ sess.topic # t

\* sessionHandlers.update, run once; st is [session, address, events, thrown]
UpdateHandler(st, store, t, params) ==
    IF UpdateIgnored(st.session, t) THEN st
    ELSE LET updated == SessionGet(store, t) IN
         IF updated = NoSession THEN st
         ELSE LET merged == MergeUpdate(updated, params)
                  ext == extractAddressFromSession(merged)
                  old == extractAllAddressesFromSession(st.session)
                  new == extractAllAddressesFromSession(merged)
              IN IF ~ext.ok
                 THEN [st EXCEPT !.session = merged, !.thrown = TRUE]
                 ELSE [st EXCEPT !.session = merged,
                                 !.address = ext.address,
                                 !.events = IF AddressesChanged(old, new)
                                            THEN Append(@, AccountsChanged(new))
                                            ELSE @,
                                 !.thrown = AddressesChanged(old, new)
                                            /\ emit(AccountsChanged(new)).propagated]

\* the client's emitter calls the n registered handlers; a throw ends it
RECURSIVE DeliverUpdate(_, _, _, _, _)
DeliverUpdate(st, store, t, params, n) ==
    IF n = 0 \/ st.thrown THEN st
    ELSE DeliverUpdate(UpdateHandler(st, store, t, params), store, t, params, n - 1)

DeleteMatchesAnyTopic(sess, t) == sess # NoSession

\* if (this._session?.topic === topic)
DeleteMatches(sess, t) == sess # NoSession /\ sess.topic = t

DeleteHandlerKeepsHandlers(st, t) ==
    IF DeleteMatches(st.session, t)
    THEN [st EXCEPT !.session = NoSession, !.address = Undefined,
                    !.events = Append(st.events, Disconnected)]
    ELSE st

\* sessionHandlers.delete, run once; st is [session, address, events,
\* sessionHandlers, regUpdate, regDelete]
DeleteHandler(st, t) ==
    IF DeleteMatches(st.session, t)
    THEN LET off == IF emit(Disconnected).propagated THEN st ELSE OffHandlers(st) IN
         [session |-> NoSession, address |-> Undefined,
          events |-> Append(st.events, Disconnected),
          sessionHandlers |-> off.sessionHandlers, regUpdate |-> off.regUpdate,
          regDelete |-> off.regDelete]
    ELSE st

RECURSIVE DeliverDelete(_, _, _)
DeliverDelete(st, t, n) ==
    IF n = 0 THEN st ELSE DeliverDelete(DeleteHandler(st, t), t, n - 1)

\* the transport's store after it applies an update to topic t
StoreUpdated(store, t, params) ==
    IF params = NoParams THEN store
    ELSE [k \in 1..Len(store) |->
             IF store[k].topic = t THEN [store[k] EXCEPT !.namespaces = params]
             ELSE store[k]]

\* The transport updates the namespaces of a session it holds and emits
\* session_update; a late notification names a topic it no longer holds.
SessionUpdateNotify(t, params) ==
    /\ provider # 0
    /\ \E store \in {StoreUpdated(tSessions, t, params)} :
       \E st \in {DeliverUpdate([session |-> session, address |-> address,
                                 events |-> << >>, thrown |-> FALSE],
                                store, t, params, Cardinality(regUpdate))} :
          /\ tSessions' = store
          /\ session' = st.session
          /\ address' = st.address
          /\ events' = st.events
          /\ invoked' = IF events' = << >> THEN << >> ELSE Invocations(events')
          /\ thrown' = st.thrown
          /\ delivered' = IF regUpdate # {} THEN "update" ELSE "none"
          /\ NoCacheOutput
          /\ requests' = << >>
          /\ settled' = IdleCall
          /\ UNCHANGED <<configVars, listenerVars, sampleVars, cacheVars, provider, providerPromise, client, sessionHandlers, appKit,
                         initOutcome, regUpdate, regDelete, providerSession, orphans, lateTopics, uiOpen,
                         calls>>

\* The transport drops a session and emits session_delete.
SessionDeleteNotify(t) ==
    /\ provider # 0
    /\ \E st \in {DeliverDelete([session |-> session, address |-> address,
                                events |-> << >>,
                                sessionHandlers |-> sessionHandlers,
                                regUpdate |-> regUpdate, regDelete |-> regDelete],
                               t, Cardinality(regDelete))} :
       /\ tSessions' = RemoveTopic(tSessions, t)
       /\ providerSession' = IF providerSession = t THEN 0 ELSE providerSession
       /\ session' = st.session
       /\ address' = st.address
       /\ events' = st.events
       /\ invoked' = IF events' = << >> THEN << >> ELSE Invocations(events')
       /\ sessionHandlers' = st.sessionHandlers
       /\ regUpdate' = st.regUpdate
       /\ regDelete' = st.regDelete
       /\ requests' = << >>
       /\ thrown' = FALSE
       /\ delivered' = IF regDelete # {} THEN "delete" ELSE "none"
       /\ NoCacheOutput
       /\ settled' = IdleCall
       /\ UNCHANGED <<configVars, listenerVars, sampleVars, cacheVars, provider, providerPromise, client, appKit, initOutcome,
                      orphans, uiOpen, calls>>
       /\ lateTopics' = lateTopics \ {t}

\* ------------------------------------------------------------ specification
Next ==
    \/ \E i \in Calls : CallConnect(i)
    \/ \E i \in Calls : CallCheckConnectStatus(i)
    \/ \E i \in Calls : CallDisconnect(i)
    \/ \E i \in Calls : CallSignTransaction(i)
    \/ \E i \in Calls : CallSignMessage(i)
    \/ \E a \in Inits : InitResolve(a)
    \/ \E a \in Inits : InitReject(a)
    \/ \E i \in Calls : AfterProvider(i)
    \/ \E i \in Calls : UiOpenResolve(i)
    \/ \E i \in Calls : UiOpenReject(i)
    \/ \E open \in BOOLEAN : UiStateChange(open)
    \/ \E i \in Calls, s \in StoredSession : ApprovalResolve(i, s)
    \/ \E i \in Calls : ApprovalReject(i)
    \/ \E s \in StoredSession : LateApproval(s)
    \/ \E t \in Topics : TransportAcknowledge(t)
    \/ \E i \in Calls : ConnectAdopt(i)
    \/ \E i \in Calls : CloseResolve(i)
    \/ \E i \in Calls, ok \in BOOLEAN : DisconnectSettle(i, ok)
    \/ \E i \in Calls, ok \in BOOLEAN : SignSettle(i, ok)
    \/ \E t \in Topics, params \in NsPool \cup {NoParams} : SessionUpdateNotify(t, params)
    \/ \E t \in Topics : SessionDeleteNotify(t)

\* the operations of the subscription cache, with the lifecycle operations
\* that touch it: connect() on its first-time path, which creates the
\* controller, and disconnect(), which releases the active subscriptions
NextCache ==
    \/ SubscribeModalState
    \/ SubscribeEvents
    \/ \E r \in Subs : Unsubscribe(r)
    \/ UiEvent
    \/ \E i \in Calls : CallConnect(i)
    \/ \E i \in Calls : CallDisconnect(i)
    \/ \E a \in Inits : InitResolveSingle(a)
    \/ \E i \in Calls : AfterProvider(i)
    \/ \E i \in Calls : UiOpenResolve(i)
    \/ \E open \in BOOLEAN : UiStateChange(open)
    \/ \E i \in Calls : ApprovalReject(i)
    \/ \E i \in Calls : CloseResolve(i)
    \/ \E i \in Calls, ok \in BOOLEAN : DisconnectSettle(i, ok)

SpecCache == Init /\ [][NextCache]_vars

\* the subscription cache of an application that has never held a session:
\* subscribing, unsubscribing, the connect() that creates the controller and
\* the disconnect() that releases the active subscriptions
NextSubscribe ==
    \/ SubscribeModalState
    \/ SubscribeEvents
    \/ \E r \in Subs : Unsubscribe(r)
    \/ UiEvent
    \/ \E i \in Calls : CallConnect(i)
    \/ \E i \in Calls : CallDisconnect(i)
    \/ \E a \in Inits : InitResolveFresh(a)
    \/ \E i \in Calls : AfterProvider(i)
    \/ \E i \in Calls : UiOpenResolve(i)
    \/ \E open \in BOOLEAN : UiStateChange(open)
    \/ \E i \in Calls : ApprovalReject(i)
    \/ \E i \in Calls : CloseResolve(i)

SpecSubscribe == Init /\ [][NextSubscribe]_vars

\* connecting, cancelling and resuming, late approvals kept in the history
NextLate ==
    \/ \E i \in Calls : CallConnect(i)
    \/ \E i \in Calls : CallCheckConnectStatus(i)
    \/ \E i \in Calls : CallDisconnect(i)
    \/ \E a \in Inits : InitResolve(a)
    \/ \E a \in Inits : InitReject(a)
    \/ \E i \in Calls : AfterProvider(i)
    \/ \E i \in Calls : UiOpenResolve(i)
    \/ \E i \in Calls : UiOpenReject(i)
    \/ \E open \in BOOLEAN : UiStateChange(open)
    \/ \E i \in Calls, s \in StoredSession : ApprovalResolve(i, s)
    \/ \E i \in Calls : ApprovalReject(i)
    \/ \E s \in StoredSession : LateApprovalRecorded(s)
    \/ \E t \in Topics : TransportAcknowledge(t)
    \/ \E i \in Calls : ConnectAdopt(i)
    \/ \E i \in Calls : CloseResolve(i)
    \/ \E i \in Calls, ok \in BOOLEAN : DisconnectSettle(i, ok)
    \/ \E t \in Topics : SessionDeleteNotify(t)

SpecLate == Init /\ [][NextLate]_vars

\* signing under sessions whose wallets declare session properties
NextSign ==
    \/ \E i \in Calls : CallConnect(i)
    \/ \E i \in Calls : CallSignTransaction(i)
    \/ \E a \in Inits : InitResolve(a)
    \/ \E i \in Calls : AfterProvider(i)
    \/ \E i \in Calls : UiOpenResolve(i)
    \/ \E i \in Calls, s \in ApprovedSession : ApprovalResolve(i, s)
    \/ \E i \in Calls : ConnectAdopt(i)
    \/ \E i \in Calls : CloseResolve(i)
    \/ \E i \in Calls, ok \in BOOLEAN : SignSettle(i, ok)
    \/ \E t \in Topics, params \in NsPool \cup {NoParams} : SessionUpdateNotify(t, params)

SpecSign == Init /\ [][NextSign]_vars

\* overlapping connect() and checkConnectStatus() calls around getProvider()
NextProvider ==
    \/ \E i \in Calls : CallConnect(i)
    \/ \E i \in Calls : CallCheckConnectStatus(i)
    \/ \E a \in Inits : InitResolveFresh(a)
    \/ \E a \in Inits : InitReject(a)
    \/ \E i \in Calls : AfterProvider(i)
    \/ \E i \in Calls : UiOpenResolve(i)
    \/ \E i \in Calls : UiOpenReject(i)
    \/ \E open \in BOOLEAN : UiStateChange(open)
    \/ \E i \in Calls : ApprovalReject(i)
    \/ \E i \in Calls : CloseResolve(i)

SpecProvider == InitOverlapping /\ [][NextProvider]_vars

\* ------------------------------------------------------- event listeners
\* no call and no notification: the application only changes its listeners
ListenersOnly ==
    /\ settled' = IdleCall
    /\ NoOutput
    /\ raising' = raising
    /\ UNCHANGED <<configVars, sampleVars, cacheVars, adapterVars, transportVars, uiOpen, calls>>

Without(list, l) == SelectSeq(list, LAMBDA x : x # l)

\* on(event, listener): Set.add keeps a listener it already holds in place
On(event, l) ==
    /\ eventListeners' =
           [eventListeners EXCEPT ![event] = IF \E k \in 1..Len(@) : @[k] = l THEN @
                                             ELSE Append(@, l)]
    /\ ListenersOnly

\* off(event, listener), and the closure on() returned
Off(event, l) ==
    /\ eventListeners' = [eventListeners EXCEPT ![event] = Without(@, l)]
    /\ ListenersOnly

\* removeAllListeners(event?): given is false for the call without argument
RemoveAllListeners(given, event) ==
    /\ eventListeners' = IF given THEN [eventListeners EXCEPT ![event] = << >>]
                         ELSE NoListeners
    /\ ListenersOnly

\* resuming a stored session and its notifications, under listeners of the
\* application that may throw
NextEmit ==
    \/ \E event \in EventNames, l \in Listeners : On(event, l)
    \/ \E event \in EventNames, l \in Listeners : Off(event, l)
    \/ \E given \in BOOLEAN, event \in EventNames : RemoveAllListeners(given, event)
    \/ \E i \in Calls : CallConnect(i)
    \/ \E i \in Calls : CallCheckConnectStatus(i)
    \/ \E a \in Inits : InitResolveSingle(a)
    \/ \E i \in Calls : AfterProvider(i)
    \/ \E i \in Calls : UiOpenReject(i)
    \/ \E t \in Topics, params \in NsPool \cup {NoParams} : SessionUpdateNotify(t, params)
    \/ \E t \in Topics : SessionDeleteNotify(t)

SpecEmit == InitListeners /\ [][NextEmit]_vars

\* ------------------------------------------------------ address functions
\* extractAllAddressesFromSession and extractAddressFromSession applied to
\* the session handed over
Extract ==
    /\ ~extracted.done
    /\ extracted' = [done |-> TRUE,
                     all |-> extractAllAddressesFromSession(sample),
                     current |-> extractAddressFromSession(sample)]
    /\ sample' = sample
    /\ settled' = IdleCall
    /\ NoOutput
    /\ UNCHANGED <<configVars, listenerVars, cacheVars, adapterVars, transportVars, uiOpen,
                   calls>>

NextSample == Extract

SpecSample == InitSample /\ [][NextSample]_vars

\* checkConnectStatus() and disconnect() called without awaiting the calls
\* made before, and the transport's delete notifications
NextOverlap ==
    \/ \E i \in Calls : CallCheckConnectStatus(i)
    \/ \E i \in Calls : CallDisconnect(i)
    \/ \E a \in Inits : InitResolve(a)
    \/ \E i \in Calls : AfterProvider(i)
    \/ \E i \in Calls, ok \in BOOLEAN : DisconnectSettle(i, ok)
    \/ \E t \in Topics : SessionDeleteNotify(t)

SpecOverlap == InitOverlapping /\ [][NextOverlap]_vars

\* a stored session through its life: resumed by connect() or
\* checkConnectStatus(), used to sign, changed and deleted by the transport's
\* notifications, given up by disconnect(); a connect() that finds nothing to
\* resume ends when its UI fails to open
NextSession ==
    \/ \E i \in Calls : CallConnect(i)
    \/ \E i \in Calls : CallCheckConnectStatus(i)
    \/ \E i \in Calls : CallDisconnect(i)
    \/ \E i \in Calls : CallSignTransaction(i)
    \/ \E i \in Calls : CallSignMessage(i)
    \/ \E a \in Inits : InitResolve(a)
    \/ \E a \in Inits : InitReject(a)
    \/ \E i \in Calls : AfterProvider(i)
    \/ \E i \in Calls : UiOpenReject(i)
    \/ \E i \in Calls, ok \in BOOLEAN : DisconnectSettle(i, ok)
    \/ \E i \in Calls, ok \in BOOLEAN : SignSettle(i, ok)
    \/ \E t \in Topics, params \in NsPool \cup {NoParams} : SessionUpdateNotify(t, params)
    \/ \E t \in Topics : SessionDeleteNotify(t)

SpecSession == Init /\ [][NextSession]_vars

\* connect() on its first-time path: the approval UI opened, closed by the
\* user or failing to open, the wallet approving in time, late or not at
\* all, and the connect() and checkConnectStatus() calls that follow
NextConnect ==
    \/ \E i \in Calls : CallConnect(i)
    \/ \E i \in Calls : CallCheckConnectStatus(i)
    \/ \E a \in Inits : InitResolve(a)
    \/ \E i \in Calls : AfterProvider(i)
    \/ \E i \in Calls : UiOpenResolve(i)
    \/ \E i \in Calls : UiOpenReject(i)
    \/ \E open \in BOOLEAN : UiStateChange(open)
    \/ \E i \in Calls, s \in StoredSession : ApprovalResolve(i, s)
    \/ \E i \in Calls : ApprovalReject(i)
    \/ \E s \in StoredSession : LateApproval(s)
    \/ \E t \in Topics : TransportAcknowledge(t)
    \/ \E i \in Calls : ConnectAdopt(i)
    \/ \E i \in Calls : CloseResolve(i)

SpecConnect == Init /\ [][NextConnect]_vars

Spec == Init /\ [][Next]_vars

TypeOK ==
    /\ provider \in 0..MaxInits
    /\ client \in {0, provider}
    /\ orphans \in 0..MaxOrphans
    /\ lateTopics \subseteq TopicsOf(tSessions)
    /\ Cardinality(TopicsOf(tSessions)) = Len(tSessions)

\* ------------------------------------------------------------- properties
ProviderFailures == {"ConfigError", "InitError", "TransportError"}

SignOps == {"tron_signTransaction", "tron_signMessage"}

\* C1: when disconnect() settles - normally, with the error of the remote
\* client.disconnect call, or with NotInitializedError - the stored session
\* and the stored address are both absent.
C1_DisconnectClears ==
    settled.op = "disconnect" =>
        /\ settled.result \in {"ok", "TransportError", "NotInitializedError"}
        /\ session = [topic |-> 0, namespaces |-> << >>, sessionProperties |-> << >>]
        /\ address = <<"undefined">>

\* a disconnect() of a stored session whose remote call threw has settled
C1_Witness ==
    /\ settled.op = "disconnect"
    /\ settled.result = "TransportError"
    /\ settled.hadSession
    /\ session.topic = 0

\* C2: a connect() on the first-time path whose UI goes from open to closed
\* while the approval is pending rejects with the user-cancelled error; no
\* step of that call writes the session or the address, arms the handlers or
\* emits an event, and an empty session store stays empty until it settles.
C2_CancelledConnect ==
    [][\A i \in Calls :
        /\ (calls[i].pc = "racing" /\ uiOpen /\ ~uiOpen') =>
              /\ calls'[i].pc = "closing"
              /\ calls'[i].result = "UserCancelled"
              /\ calls'[i].path = "first"
              /\ events' = << >>
              /\ UNCHANGED <<session, address, sessionHandlers, regUpdate, regDelete>>
        /\ (calls[i].pc = "closing" /\ calls[i].result = "UserCancelled") =>
              /\ calls'[i] \in {calls[i], IdleCall}
              /\ calls'[i] = IdleCall =>
                    /\ settled' = [calls[i] EXCEPT !.pc = "done"]
                    /\ events' = << >>
                    /\ UNCHANGED <<session, address, sessionHandlers, regUpdate, regDelete>>
              /\ (session.topic = 0 /\ regUpdate = {} /\ regDelete = {}) =>
                    /\ session'.topic = 0
                    /\ regUpdate' = {} /\ regDelete' = {}
                    /\ events' = << >>
        /\ settled'.result = "UserCancelled" =>
              /\ settled'.op = "connect"
              /\ ~settled'.wrote /\ ~settled'.armed /\ settled'.emitted = 0
      ]_vars

\* a cancelled connect() has settled and the session store is empty
C2_Witness ==
    /\ settled.op = "connect"
    /\ settled.result = "UserCancelled"
    /\ ~settled.hadSession
    /\ session.topic = 0
    /\ regUpdate = {} /\ regDelete = {}

\* C3: when the session query of connect() returns at least one acknowledged
\* session the call settles on the resume path in that step; it neither
\* creates the approval UI nor opens it, whatever sessions were stored before.
C3_ResumeNeverOpens ==
    [][\A i \in Calls :
        (/\ calls[i].op = "connect"
         /\ calls[i].pc = "awaitProvider"
         /\ calls'[i] # calls[i]
         /\ Len(SelectSeq(tSessions, LAMBDA s : s.acknowledged)) >= 1)
        => /\ calls'[i] = IdleCall
           /\ UNCHANGED <<appKit, uiOpen>>
           /\ settled'.result \in {"ok", "MalformedSession", "InitError", "TransportError"}
           /\ settled'.result \in {"ok", "MalformedSession"} => settled'.path = "resume"
      ]_vars

\* a second connect() has resumed the session and no UI was ever created
C3_Witness ==
    /\ settled.op = "connect"
    /\ settled.path = "resume"
    /\ settled.result = "ok"
    /\ settled.hadSession
    /\ ~appKit /\ ~uiOpen

\* the step in which call i leaves `await getProvider()` with a query result
\* that holds an acknowledged session
ResumeStep(i) ==
    /\ calls[i].pc = "awaitProvider"
    /\ calls'[i] # calls[i]
    /\ Len(SelectSeq(tSessions, LAMBDA s : s.acknowledged)) >= 1
    /\ settled'.result \notin {"InitError", "TransportError"}

QueryLast ==
    LET acked == SelectSeq(tSessions, LAMBDA s : s.acknowledged)
    IN [topic |-> acked[Len(acked)].topic, namespaces |-> acked[Len(acked)].namespaces,
        sessionProperties |-> acked[Len(acked)].sessionProperties]

ResumeAdopts ==
    /\ session' = QueryLast
    /\ sessionHandlers'.update # 0
    /\ regUpdate' = {sessionHandlers'.update}
    /\ regDelete' = {sessionHandlers'.delete}
    /\ events' = <<[name |-> "accountsChanged",
                    args |-> extractAllAddressesFromSession(QueryLast)]>>
    /\ settled'.result = "ok"
    /\ settled'.address = extractAddressFromSession(QueryLast).address
    /\ address' = settled'.address

\* C4 as stated: on the resume path the last acknowledged session of the
\* query result is stored, the handlers are armed, accountsChanged is emitted
\* once with all its addresses and its primary address is returned.
C4_ResumeAlwaysAdopts ==
    [][\A i \in Calls : ResumeStep(i) => ResumeAdopts]_vars

\* C4: on the resume path the last acknowledged session of the query result
\* is the one adopted; when it yields a primary address it is stored, the
\* handlers are armed, accountsChanged is emitted once with all its addresses
\* and the primary address is returned; when it yields none the call fails
\* with the malformed-session error, arms nothing and emits nothing.
C4_ResumeAdoptsLast ==
    [][\A i \in Calls : ResumeStep(i) =>
          IF extractAddressFromSession(QueryLast).ok
          THEN ResumeAdopts
          ELSE /\ settled'.result = "MalformedSession"
               /\ events' = << >>
               /\ UNCHANGED <<address, sessionHandlers, regUpdate, regDelete>>
      ]_vars

\* a resume has adopted the last of two acknowledged sessions
C4_Witness ==
    /\ settled.path = "resume"
    /\ settled.result = "ok"
    /\ Len(SelectSeq(tSessions, LAMBDA s : s.acknowledged)) = 2
    /\ session.topic = tSessions[2].topic
    /\ events # << >>
    /\ regUpdate # {}

CheckSettles(failures) ==
    /\ \A i \in Calls :
          (calls[i].op = "checkConnectStatus" /\ calls'[i] # calls[i]) =>
              /\ calls'[i] = IdleCall
              /\ UNCHANGED <<appKit, uiOpen>>
    /\ settled'.op = "checkConnectStatus" =>
          /\ UNCHANGED <<appKit, uiOpen>>
          /\ (/\ SelectSeq(tSessions, LAMBDA s : s.acknowledged) = << >>
              /\ settled'.result \notin ProviderFailures)
             => settled'.result = "ok" /\ settled'.address = << >>
          /\ settled'.result # "ok" => settled'.result \in failures

\* C5 as stated: checkConnectStatus() never creates or opens the UI, returns
\* {address: ''} when no acknowledged session matches, and fails only when
\* the provider cannot be obtained or the query fails.
C5_CheckFailsOnlyOnProvider == [][CheckSettles(ProviderFailures)]_vars

MalformedFailure ==
    IF /\ SelectSeq(tSessions, LAMBDA s : s.acknowledged) # << >>
       /\ ~extractAddressFromSession(QueryLast).ok
    THEN {"MalformedSession"} ELSE {}

\* C5: checkConnectStatus() never creates or opens the UI and returns
\* {address: ''} when no acknowledged session matches; it fails when the
\* provider cannot be obtained, when the query fails, or with the
\* malformed-session error when the last acknowledged session yields no
\* primary address.
C5_CheckConnectStatus ==
    [][CheckSettles(ProviderFailures \cup MalformedFailure)]_vars

\* checkConnectStatus() has returned {address: ''} and no UI exists
C5_Witness ==
    /\ settled.op = "checkConnectStatus"
    /\ settled.result = "ok"
    /\ settled.address = << >>
    /\ ~appKit

\* checkConnectStatus() has failed on a session without accounts
C5_MalformedWitness ==
    /\ settled.op = "checkConnectStatus"
    /\ settled.result = "MalformedSession"

\* the session the update handler merges for topic t, when the transport
\* still holds the topic after the update
MergedAfter(t, params) ==
    LET k == CHOOSE k \in 1..Len(tSessions') : tSessions'[k].topic = t
    IN [topic |-> t,
        namespaces |-> IF params # NoParams THEN params ELSE tSessions'[k].namespaces,
        sessionProperties |-> tSessions'[k].sessionProperties]

\* an update notification for the current session's topic reaches the handler
MatchingUpdate(params) ==
    /\ delivered' = "update"
    /\ session.topic # 0
    /\ tSessions' = StoreUpdated(tSessions, session.topic, params)
    /\ SessionUpdateNotify(session.topic, params)
    /\ \E k \in 1..Len(tSessions') : tSessions'[k].topic = session.topic

EmitsIffChanged(old, new) ==
    IF old = new THEN events' = << >>
    ELSE events' = <<[name |-> "accountsChanged", args |-> new]>>

C7_MatchingDelete ==
    [][/\ \A t \in Topics :
            (session.topic = t /\ regDelete # {} /\ SessionDeleteNotify(t)) =>
                /\ session' = [topic |-> 0, namespaces |-> << >>, sessionProperties |-> << >>]
                /\ address' = <<"undefined">>
                /\ events' = <<[name |-> "disconnect", args |-> << >>]>>
                /\ sessionHandlers' = [update |-> 0, delete |-> 0]
                /\ regUpdate' = {} /\ regDelete' = {}
       /\ \A t \in Topics, params \in NsPool \cup {NoParams} :
            (/\ regUpdate = {} /\ regDelete = {}
             /\ calls' = calls /\ provider # 0
             /\ SessionDeleteNotify(t) \/ SessionUpdateNotify(t, params)) =>
                /\ events' = << >>
                /\ UNCHANGED <<session, address, sessionHandlers, regUpdate, regDelete>>
      ]_vars

\* a matching delete notification has just been handled
C7_Witness ==
    /\ delivered = "delete"
    /\ events = <<[name |-> "disconnect", args |-> << >>]>>
    /\ session.topic = 0
    /\ regUpdate = {} /\ regDelete = {}

\* C8: a delete notification whose topic is not the current session's topic
\* leaves the stored session, the stored address and the registered handlers
\* unchanged and emits no event.
C8_OtherTopicDelete ==
    [][\A t \in Topics :
          (session.topic # t /\ SessionDeleteNotify(t)) =>
              /\ events' = << >>
              /\ UNCHANGED <<session, address, sessionHandlers, regUpdate, regDelete>>
      ]_vars

\* the armed handler has seen a delete for another topic; the session stays
C8_Witness ==
    /\ delivered = "delete"
    /\ events = << >>
    /\ session.topic # 0
    /\ regDelete # {}
    /\ regUpdate # {}

\* C9: signTransaction() and signMessage() called with no session stored fail
\* with NotInitializedError and dispatch no request; a request is dispatched
\* only for the stored session.
C9_SignNeedsSession ==
    [][/\ \A i \in Calls :
            (/\ session.topic = 0
             /\ CallSignTransaction(i) \/ CallSignMessage(i)) =>
                /\ calls'[i] = IdleCall
                /\ settled'.op \in SignOps
                /\ settled'.result = "NotInitializedError"
                /\ requests' = << >>
       /\ requests' # << >> =>
            /\ session.topic # 0
            /\ Len(requests') = 1
            /\ requests'[1].topic = session.topic
      ]_vars

\* signTransaction() right after a settled disconnect(), the client still there
C9_Witness ==
    /\ settled.op = "tron_signTransaction"
    /\ settled.result = "NotInitializedError"
    /\ settled.ctx = "afterDisconnect"
    /\ client # 0
    /\ requests = << >>

\* C10 as stated: every transition of the stored session from present to
\* absent, by a delete notification or by disconnect(), emits the disconnect
\* event.
C10_DisconnectEventOnEveryLoss ==
    [][(session.topic # 0 /\ session'.topic = 0) =>
          events' = <<[name |-> "disconnect", args |-> << >>]>>
      ]_vars

\* C11: every accountsChanged passed to emit carries a non-empty address
\* list whose first element is the stored address at that moment; when
\* connect() or checkConnectStatus() emitted it, that element is the address
\* the call returns.
C11_EmissionCarriesPrimary ==
    \A k \in 1..Len(events) :
        events[k].name = "accountsChanged" =>
            /\ Len(events[k].args) >= 1
            /\ events[k].args[1] = address
            /\ address # <<"undefined">> /\ address # << >>
            /\ delivered = "none" =>
                  \/ /\ settled.op \in {"connect", "checkConnectStatus"}
                     /\ settled.result = "ok"
                     /\ settled.address = events[k].args[1]
                  \/ \E i \in Calls :
                        /\ calls[i].op = "connect"
                        /\ calls[i].pc = "closing"
                        /\ calls[i].result = "ok"
                        /\ calls[i].address = events[k].args[1]

\* checkConnectStatus() has emitted two addresses and returned the first
C11_Witness ==
    /\ settled.op = "checkConnectStatus"
    /\ Len(events) = 1
    /\ events[1].name = "accountsChanged"
    /\ Len(events[1].args) = 2
    /\ settled.address = events[1].args[1]
    /\ address = settled.address

\* C12: a callback subscribed before the UI controller exists whose closure
\* is first called before the controller is created is never subscribed on
\* the controller, gets no handle, is in no list of the cache and is never
\* invoked.
C12_UnsubscribedBeforeCreation ==
    \A r \in Subs :
        closures[r].called = "before" =>
            /\ r \notin ctlSubs
            /\ r \notin notified
            /\ ~closures[r].fn
            /\ \A k \in 1..Len(pendingModalCallbacks) : pendingModalCallbacks[k] # r
            /\ \A k \in 1..Len(pendingEventCallbacks) : pendingEventCallbacks[k] # r
            /\ \A k \in 1..Len(modalStateUnsubscribers) : modalStateUnsubscribers[k] # r
            /\ \A k \in 1..Len(eventUnsubscribers) : eventUnsubscribers[k] # r

\* the controller exists, its state has changed with another callback
\* subscribed, and the callback unsubscribed before creation was not invoked
C12_Witness ==
    /\ appKit
    /\ closures[1].kind = "state"
    /\ closures[1].called = "before"
    /\ notified = {2}

\* the application calls closure r again, or after disconnect() released
\* its subscription
RepeatedUnsubscribe(r) ==
    /\ \/ closures[r].called # "never"
       \/ closures[r].fn /\ r \notin ctlSubs
    /\ Unsubscribe(r)

\* C13 as stated: a second or later call of an unsubscribe closure, or a
\* call after disconnect() released the subscription, changes neither the
\* pending queues nor the active lists and invokes no real unsubscribe
\* handle.
C13_RepeatedCallInvokesNothing ==
    [][\A r \in Subs : RepeatedUnsubscribe(r) =>
          /\ UNCHANGED <<pendingModalCallbacks, pendingEventCallbacks,
                         modalStateUnsubscribers, eventUnsubscribers, ctlSubs>>
          /\ unsubscribed' = << >>
      ]_vars

\* C13: a second or later call of an unsubscribe closure, or a call after
\* disconnect() released the subscription, changes neither the pending
\* queues nor the active lists nor the controller's subscribers; a closure
\* that holds a real handle invokes that handle again, a closure whose
\* record never was activated invokes nothing.
C13_RepeatedCallChangesNothing ==
    [][\A r \in Subs : RepeatedUnsubscribe(r) =>
          /\ UNCHANGED <<pendingModalCallbacks, pendingEventCallbacks,
                         modalStateUnsubscribers, eventUnsubscribers, ctlSubs>>
          /\ unsubscribed' = IF closures[r].fn THEN <<r>> ELSE << >>
          /\ notified' = {}
      ]_vars

\* closure 1 was called after disconnect() had released its subscription,
\* with another subscription active
C13_Witness ==
    /\ closures[1].called = "after"
    /\ closures[1].fn
    /\ unsubscribed = <<1>>
    /\ 2 \in ctlSubs
    /\ settled.op = "none"
    /\ \E i \in Calls : calls[i].op = "disconnect"

\* a step of a connect() or checkConnectStatus() call that was not cancelled,
\* at one of the two places where such a call adopts a session
AdoptingCallStep ==
    \E i \in Calls :
        /\ calls[i].op \in {"connect", "checkConnectStatus"}
        /\ calls[i].pc \in {"awaitProvider", "approved"}
        /\ calls[i].result = "none"
        /\ calls'[i] # calls[i]

\* C14: an approval that arrives after its connect() was cancelled is not
\* adopted: the step changes neither the stored session, the address nor the
\* handlers and emits nothing; a session is stored, a handler armed or
\* accountsChanged emitted by a call only in a step of a connect() or
\* checkConnectStatus() that was not cancelled.
C14_LateApprovalNotAdopted ==
    [][/\ \A s \in StoredSession : LateApproval(s) =>
             /\ UNCHANGED <<session, address, client, sessionHandlers, regUpdate, regDelete>>
             /\ events' = << >>
             /\ calls' = calls
       /\ (delivered' = "none" /\ session' # session /\ session'.topic # 0)
             => AdoptingCallStep
       /\ (regUpdate' # regUpdate /\ regUpdate' # {}) => AdoptingCallStep
       /\ (delivered' = "none" /\ events' # << >>) => AdoptingCallStep
      ]_vars

\* the approval has arrived while the cancelled connect() waits for close():
\* the transport and the provider hold the session, the adapter nothing
C14_Witness ==
    /\ \E i \in Calls : calls[i].pc = "closing" /\ calls[i].result = "UserCancelled"
    /\ orphans = 0
    /\ providerSession # 0
    /\ providerSession \in TopicsOf(tSessions)
    /\ session.topic = 0
    /\ regUpdate = {} /\ regDelete = {}

\* the step in which a connect() or checkConnectStatus() call gets a query
\* result that holds an acknowledged session approved after a cancel
LateResumeStep(i) ==
    /\ ResumeStep(i)
    /\ calls[i].op \in {"connect", "checkConnectStatus"}
    /\ \E k \in 1..Len(tSessions) :
          tSessions[k].acknowledged /\ tSessions[k].topic \in lateTopics

\* the call settles without the approval UI: nothing is opened or created
SettlesWithoutUi(i) ==
    /\ calls'[i] = IdleCall
    /\ settled'.op = calls[i].op
    /\ UNCHANGED <<uiOpen, appKit>>

C15_ConnectWitness ==
    /\ settled.op = "connect"
    /\ settled.path = "resume"
    /\ settled.result = "ok"
    /\ session.topic \in lateTopics
    /\ ~uiOpen

\* C16: without a project identifier connect() and checkConnectStatus()
\* fail with the configuration error on every call, no transport
\* initialization is ever started, and the memoized promise, the provider,
\* the session and the address stay as constructed.
C16_NoProjectIdNoInit ==
    /\ [](~projectId =>
            /\ provider = 0 /\ providerPromise = 0
            /\ \A a \in Inits : initOutcome[a] = "none"
            /\ session = [topic |-> 0, namespaces |-> << >>, sessionProperties |-> << >>]
            /\ address = Undefined)
    /\ [][~projectId =>
            \A i \in Calls :
                (CallConnect(i) \/ CallCheckConnectStatus(i)) =>
                    /\ settled'.result = "ConfigError"
                    /\ calls'[i] = IdleCall
                    /\ UNCHANGED <<provider, providerPromise, initOutcome, session, address>>
         ]_vars

\* without a project identifier a checkConnectStatus() has just failed with
\* the configuration error
C16_Witness ==
    /\ ~projectId
    /\ settled.op = "checkConnectStatus"
    /\ settled.result = "ConfigError"
    /\ provider = 0 /\ providerPromise = 0

\* the session declares tron_method_version 'v1'
DeclaresV1(sess) ==
    \E k \in 1..Len(sess.sessionProperties) :
        sess.sessionProperties[k] = <<"tron_method_version", "v1">>

\* C17: signTransaction() under a live session sends one request, on the
\* current session's topic and with the stored address: params
\* {address, transaction} when the session's sessionProperties declare
\* tron_method_version 'v1', and {address, transaction: {transaction}} for
\* every other or absent value.
C17_SignTransactionParams ==
    [][\A i \in Calls :
          (CallSignTransaction(i) /\ client # 0 /\ session.topic # 0) =>
              /\ calls'[i].pc = "signing"
              /\ Len(requests') = 1
              /\ requests'[1].method = "tron_signTransaction"
              /\ requests'[1].topic = session.topic
              /\ requests'[1].params.address = address
              /\ \E transaction \in {[txID |-> "a"], [txID |-> "b"]} :
                    requests'[1].params =
                        IF DeclaresV1(session)
                        THEN [address |-> address, transaction |-> transaction]
                        ELSE [address |-> address,
                              transaction |-> [transaction |-> transaction]]
      ]_vars

\* a v1 session's signTransaction() request is in flight, bare transaction
C17_Witness ==
    /\ session.sessionProperties = << <<"tron_method_version", "v1">> >>
    /\ \E i \in Calls : calls[i].op = "tron_signTransaction" /\ calls[i].pc = "signing"
    /\ Len(requests) = 1
    /\ requests[1].topic = session.topic
    /\ requests[1].params = [address |-> address, transaction |-> [txID |-> "b"]]

\* a v2 session's signTransaction() request is in flight, wrapped transaction
C17_OtherVersionWitness ==
    /\ session.sessionProperties = << <<"tron_method_version", "v2">> >>
    /\ Len(requests) = 1
    /\ requests[1].method = "tron_signTransaction"
    /\ requests[1].params =
          [address |-> address, transaction |-> [transaction |-> [txID |-> "a"]]]

\* the initialization attempts in flight or resolved
LiveAttempts == {a \in Inits : initOutcome[a] \in {"pending", "ok"}}

\* call i starts: it enters getProvider()
StartsCall(i) == calls[i].pc = "idle" /\ calls'[i].pc # "idle"

\* call i leaves `await getProvider()` with a provider
GetsProvider(i) ==
    /\ calls[i].pc = "awaitProvider"
    /\ calls'[i] # calls[i]
    /\ settled'.result # "InitError"

\* C18: at most one initialization attempt is in flight or resolved at any
\* time; a connect() or checkConnectStatus() called while an attempt is in
\* flight, or after a provider was created, starts no transport init and
\* awaits that attempt or takes the provider; every call that gets a
\* provider gets the one the single resolved attempt created.
C18_SingleInitialization ==
    /\ [](Cardinality(LiveAttempts) <= 1)
    /\ [](provider # 0 => initOutcome[provider] = "ok")
    /\ [][\A i \in Calls :
            /\ (StartsCall(i) /\ LiveAttempts # {}) =>
                  /\ initOutcome' = initOutcome
                  /\ UNCHANGED <<provider, providerPromise>>
                  /\ calls'[i].att \in {0} \cup LiveAttempts
                  /\ calls'[i].att = 0 => provider \in LiveAttempts
            /\ GetsProvider(i) => LiveAttempts = {provider'}
         ]_vars

\* two calls await the same initialization attempt, still in flight
C18_Witness ==
    \E i, j \in Calls :
        /\ i # j
        /\ calls[i].pc = "awaitProvider" /\ calls[j].pc = "awaitProvider"
        /\ calls[i].att # 0 /\ calls[i].att = calls[j].att
        /\ initOutcome[calls[i].att] = "pending"
        /\ providerPromise = calls[i].att
        /\ Cardinality({a \in Inits : initOutcome[a] # "none"}) = 1

\* a call made after the provider was created has got that provider
C18_LaterCallWitness ==
    /\ provider # 0
    /\ settled.op = "checkConnectStatus" /\ settled.att = 0 /\ settled.result = "ok"
    /\ \E i \in Calls : calls[i].pc # "idle"

\* C19: when an initialization attempt fails the memoized promise is
\* cleared, and a failed attempt is never memoized; every call awaiting the
\* failed attempt settles with its failure and touches nothing else; the
\* next call that finds no attempt in flight starts a fresh attempt, which
\* can resolve.
C19_FailedInitNotMemoized ==
    /\ [](providerPromise # 0 => initOutcome[providerPromise] \in {"pending", "ok"})
    /\ [][/\ \A a \in Inits :
               (initOutcome[a] = "pending" /\ initOutcome'[a] = "fail") => providerPromise' = 0
          /\ \A i \in Calls :
               /\ (/\ calls[i].pc = "awaitProvider"
                   /\ calls[i].att # 0
                   /\ initOutcome[calls[i].att] = "fail"
                   /\ calls'[i] # calls[i]) =>
                       /\ calls'[i].pc = "idle"
                       /\ settled'.op = calls[i].op
                       /\ settled'.result = "InitError"
                       /\ UNCHANGED <<provider, providerPromise, client, session, address>>
               /\ (/\ calls[i].pc = "idle" /\ calls'[i].pc # "idle"
                   /\ projectId
                   /\ provider = 0
                   /\ \A a \in Inits : initOutcome[a] \notin {"pending", "ok"}) =>
                       /\ providerPromise' # 0
                       /\ initOutcome[providerPromise'] = "none"
                       /\ initOutcome'[providerPromise'] = "pending"
                       /\ calls'[i].att = providerPromise'
         ]_vars

\* two calls shared an attempt that failed: one has settled with the
\* failure, the other still awaits it, and the promise is cleared
C19_Witness ==
    /\ settled.result = "InitError"
    /\ providerPromise = 0
    /\ provider = 0
    /\ \E i \in Calls :
          /\ calls[i].pc = "awaitProvider"
          /\ calls[i].att = settled.att
          /\ initOutcome[calls[i].att] = "fail"

\* after a failed attempt a fresh attempt has resolved and a call has got
\* its provider
C19_RetryWitness ==
    /\ \E a \in Inits : initOutcome[a] = "fail"
    /\ provider # 0
    /\ initOutcome[provider] = "ok"
    /\ settled.att = provider
    /\ settled.result = "ok"

\* C20 as stated: in every state in which a session is stored, its
\* namespaces yield at least one account identifier.
C20_StoredSessionHasAccounts ==
    session.topic # 0 => Len(FlatMapAccounts(session.namespaces)) >= 1

\* C21: an update notification for topic t changes neither the stored
\* session nor the stored address, emits nothing and raises nothing when no
\* session is stored, when t is not the current session's topic, or when the
\* transport no longer holds t: a step that changes any of these is not
\* such a notification.
C21_UpdateIgnored ==
    [][\/ /\ UNCHANGED <<session, address>>
          /\ events' = << >>
          /\ thrown' = FALSE
       \/ \A t \in Topics, params \in NsPool \cup {NoParams} :
             ~(/\ \/ session.topic = 0
                  \/ session.topic # t
                  \/ t \notin TopicsOf(tSessions)
               /\ calls' = calls
               /\ provider # 0
               /\ settled' = IdleCall
               /\ tSessions' = StoreUpdated(tSessions, t, params)
               /\ SessionUpdateNotify(t, params))
      ]_vars

\* an update notification has reached the handler while the transport no
\* longer holds the current session's topic: whichever topic it named, it
\* was ignored
C21_Witness ==
    /\ delivered = "update"
    /\ regUpdate # {}
    /\ session.topic # 0
    /\ session.topic \notin TopicsOf(tSessions)
    /\ events = << >>
    /\ ~thrown

\* C22: at most one update handler and at most one delete handler are
\* registered on the transport, and a registered handler is the one the
\* adapter references; a step that arms handlers leaves exactly the new
\* ones registered; so a notification reaches at most one handler.
C22_OneHandlerEach ==
    /\ [](/\ Cardinality(regUpdate) <= 1
          /\ Cardinality(regDelete) <= 1
          /\ regUpdate \subseteq {sessionHandlers.update}
          /\ regDelete \subseteq {sessionHandlers.delete})
    /\ [][(sessionHandlers'.update # 0 /\ calls' # calls) =>
              /\ regUpdate' = {sessionHandlers'.update}
              /\ regDelete' = {sessionHandlers'.delete}
         ]_vars

\* a resume has armed the handlers for its session while the handlers of
\* the session current before were registered
C22_Witness ==
    /\ settled.path = "resume"
    /\ settled.result = "ok"
    /\ settled.hadSession
    /\ settled.armed
    /\ sessionHandlers.update # 0
    /\ regUpdate = {sessionHandlers.update}
    /\ regDelete = {sessionHandlers.delete}

\* a disconnect() call is suspended on client.disconnect
Disconnecting == \E i \in Calls : calls[i].op = "disconnect" /\ calls[i].pc = "disconnecting"

\* C23: while disconnect() is suspended on the remote call no update or
\* delete handler is registered, and an update or delete notification
\* delivered then reaches no handler, changes no adapter state and emits
\* nothing.
C23_NotificationsDuringDisconnect ==
    /\ [](Disconnecting =>
            /\ regUpdate = {} /\ regDelete = {}
            /\ sessionHandlers = [update |-> 0, delete |-> 0])
    /\ [][(/\ Disconnecting
           /\ calls' = calls
           /\ settled'.op = "none"
           /\ \/ \E t \in Topics : SessionDeleteNotify(t)
              \/ \E t \in Topics, params \in NsPool \cup {NoParams} :
                    SessionUpdateNotify(t, params)) =>
              /\ UNCHANGED <<provider, providerPromise, client, session, address,
                             sessionHandlers, appKit>>
              /\ events' = << >>
              /\ delivered' = "none"
              /\ thrown' = FALSE
         ]_vars

\* disconnect() is suspended with the handlers off and the session still
\* stored, and the transport no longer holds the session's topic
C23_Witness ==
    /\ \E i \in Calls :
          /\ calls[i].op = "disconnect" /\ calls[i].pc = "disconnecting"
          /\ calls[i].topic = session.topic
          /\ calls[i].hadSession
    /\ session.topic # 0
    /\ session.topic \notin TopicsOf(tSessions)
    /\ address # Undefined
    /\ regUpdate = {} /\ regDelete = {}
    /\ events = << >>
    /\ delivered = "none"

\* the topic a disconnect() called now finds, 0 for none, and whether it
\* finds a client handle
TopicFound ==
    IF session.topic # 0 THEN session.topic
    ELSE IF provider # 0 THEN providerSession
    ELSE 0

ClientFound == provider # 0 \/ client # 0

\* C24: disconnect() fails with NotInitializedError, issuing no remote
\* request, exactly when neither the stored session nor the provider's last
\* session supplies a topic or no client handle exists; otherwise the remote
\* request names the stored session's topic, or the provider's last topic
\* when no session is stored; either way the session handlers are
\* unregistered and every active UI subscription has been released, in list
\* order, in the same step.
C24_DisconnectNotInitialized ==
    [][\A i \in Calls : CallDisconnect(i) =>
          /\ IF TopicFound = 0 \/ ~ClientFound
             THEN /\ settled'.op = "disconnect"
                  /\ settled'.result = "NotInitializedError"
                  /\ calls'[i].pc = "idle"
             ELSE /\ settled'.op = "none"
                  /\ calls'[i].pc = "disconnecting"
                  /\ calls'[i].topic = TopicFound
          /\ regUpdate' = {} /\ regDelete' = {}
          /\ sessionHandlers' = [update |-> 0, delete |-> 0]
          /\ modalStateUnsubscribers' = << >>
          /\ eventUnsubscribers' = << >>
          /\ unsubscribed' = modalStateUnsubscribers \o eventUnsubscribers
          /\ \A r \in Subs :
                (r \in Range(modalStateUnsubscribers) \/ r \in Range(eventUnsubscribers))
                    => r \notin ctlSubs'
      ]_vars

\* disconnect() has failed with NotInitializedError after releasing an
\* active UI subscription
C24_Witness ==
    /\ settled.op = "disconnect"
    /\ settled.result = "NotInitializedError"
    /\ unsubscribed # << >>
    /\ modalStateUnsubscribers = << >> /\ eventUnsubscribers = << >>
    /\ regUpdate = {} /\ regDelete = {}

\* disconnect() is suspended on a request that names the provider's last
\* topic, no session being stored when it was called
C24_FallbackWitness ==
    \E i \in Calls :
        /\ calls[i].op = "disconnect" /\ calls[i].pc = "disconnecting"
        /\ ~calls[i].hadSession
        /\ calls[i].topic = providerSession
        /\ calls[i].topic # 0

\* C25 as stated: a connect() call on the first-time path settles only from
\* its finally block, after close() was called and has resolved, whatever
\* the outcome.
C25_FirstTimeConnectCloses ==
    [][(settled'.op = "connect" /\ settled'.path = "first") =>
          /\ \E i \in Calls : calls[i].pc = "closing" /\ calls'[i].pc = "idle"
          /\ ~uiOpen'
      ]_vars

\* C26: in the step that creates the UI controller every pending record is
\* subscribed on the controller, the pending queues become empty, the
\* active lists hold the records' handles in the order they were enqueued,
\* and each record's handle is written to its slot; from then on a change of
\* the UI's state is notified to every state callback so subscribed.
C26_PendingDrainedOnCreation ==
    [][/\ (~appKit /\ appKit') =>
            /\ pendingModalCallbacks' = << >>
            /\ pendingEventCallbacks' = << >>
            /\ modalStateUnsubscribers' = pendingModalCallbacks
            /\ eventUnsubscribers' = pendingEventCallbacks
            /\ ctlSubs' = {r \in Subs : \/ \E k \in 1..Len(pendingModalCallbacks) :
                                              pendingModalCallbacks[k] = r
                                        \/ \E k \in 1..Len(pendingEventCallbacks) :
                                              pendingEventCallbacks[k] = r}
            /\ \A r \in ctlSubs' : closures'[r].cached /\ closures'[r].fn
       /\ uiOpen' # uiOpen =>
            \A r \in ctlSubs : closures[r].kind = "state" => r \in notified'
      ]_vars

\* two state callbacks subscribed before connect() were activated in queue
\* order and have just been notified of a state change
C26_Witness ==
    /\ appKit
    /\ pendingModalCallbacks = << >>
    /\ modalStateUnsubscribers = <<1, 2>>
    /\ \A r \in {1, 2} : closures[r].cached /\ closures[r].fn /\ closures[r].kind = "state"
    /\ notified = {1, 2}

\* the calls emit(name) owes: one to each listener of the event, in the
\* order the listeners were registered
OwedCalls(name) ==
    [k \in 1..Len(eventListeners[name]) |->
        [event |-> name, listener |-> eventListeners[name][k]]]

RECURSIVE OwedCallsOf(_)
OwedCallsOf(evs) ==
    IF evs = << >> THEN << >> ELSE OwedCalls(Head(evs).name) \o OwedCallsOf(Tail(evs))

\* no call fails with a listener's error, and no handler throws it
NoListenerFailure ==
    /\ ~thrown'
    /\ settled'.result # "ListenerError"
    /\ \A i \in Calls : calls'[i].result # "ListenerError"

\* the state changes of the operation that emitted are complete
EmitterCompleted ==
    \A k \in 1..Len(events') :
        IF events'[k].name = "disconnect"
        THEN /\ session' = NoSession
             /\ address' = Undefined
             /\ sessionHandlers' = NoHandlers
             /\ sessionHandlers.update \notin regUpdate'
             /\ sessionHandlers.delete \notin regDelete'
        ELSE /\ session' # NoSession
             /\ address' = ThirdSegment(FlatMapAccounts(session'.namespaces)[1])
             /\ events'[k].args = extractAllAddressesFromSession(session')

\* C27: every step that emits events calls, for each event in turn, all the
\* listeners registered for it in registration order, whether or not some
\* of them throw; no listener's error reaches the call or the notification
\* handler that emitted, and that operation's state changes are complete.
C27_EmitCallsAllListeners ==
    [][/\ invoked' = OwedCallsOf(events')
       /\ events' # << >> => NoListenerFailure /\ EmitterCompleted]_vars

\* an event was emitted to two listeners, the first of which threw
C27_Witness ==
    /\ Len(events) = 1
    /\ Len(invoked) = 2
    /\ invoked[1].listener \in raising
    /\ invoked[2].listener \notin raising

\* as C27_Witness, for the 'disconnect' of a delete notification
C27_DisconnectWitness ==
    /\ delivered = "delete"
    /\ Len(invoked) = 2
    /\ invoked[1].event = "disconnect"
    /\ invoked[1].listener \in raising
    /\ session = NoSession
\* the colons of an account string, its number of colon-delimited segments
\* and, of a string of three segments or more, the third
Colons(acc) == {i \in 1..Len(acc) : acc[i] = ":"}

SegmentCount(acc) == Cardinality(Colons(acc)) + 1

NthColon(acc, n) ==
    CHOOSE i \in Colons(acc) : Cardinality({j \in Colons(acc) : j < i}) = n - 1

ThirdOf(acc) ==
    SubSeq(acc, NthColon(acc, 2) + 1,
           IF SegmentCount(acc) > 3 THEN NthColon(acc, 3) - 1 ELSE Len(acc))

HasAddress(acc) == SegmentCount(acc) >= 3 /\ ThirdOf(acc) # << >>

\* the raw account strings of the session handed over, namespace by namespace
RawAccounts == FlatMapAccounts(sample.namespaces)

WellFormedAccounts ==
    \A k \in 1..Len(RawAccounts) :
        SegmentCount(RawAccounts[k]) = 3 /\ HasAddress(RawAccounts[k])

\* C28: the list of all addresses of a session is the third segments of its
\* account strings that have a non-empty third segment, in account order
\* (namespace by namespace, duplicates kept); for a session whose account
\* strings all have three segments it is the third segment of every
\* account; for a session without accounts it is empty.
C28_AllAddresses ==
    extracted.done =>
        LET kept == {k \in 1..Len(RawAccounts) : HasAddress(RawAccounts[k])}
            all == extracted.all
        IN /\ Len(all) = Cardinality(kept)
           /\ \A k \in kept :
                 all[Cardinality({j \in kept : j <= k})] = ThirdOf(RawAccounts[k])
           /\ WellFormedAccounts =>
                 all = [k \in 1..Len(RawAccounts) |-> ThirdOf(RawAccounts[k])]
           /\ RawAccounts = << >> => all = << >>

\* four accounts in two namespaces: two are dropped, the two equal ones kept
C28_Witness ==
    /\ extracted.done
    /\ Len(sample.namespaces) = 2
    /\ Len(RawAccounts) = 4
    /\ ~HasAddress(RawAccounts[1])
    /\ extracted.all = << <<"B">>, <<"B">> >>

\* a well-formed session of two namespaces, in namespace order
C28_WellFormedWitness ==
    /\ extracted.done
    /\ WellFormedAccounts
    /\ extracted.all = << <<"B">>, <<"A">>, <<"A">> >>
\* the primary address, where the function returns one, is the third
\* segment of the first account string
ReturnsFirstThird ==
    extracted.current.ok => extracted.current.address = ThirdOf(RawAccounts[1])

\* C29 as stated: the primary address of a session is refused exactly when
\* the list of all its addresses is empty or its first account string has
\* fewer than three segments, and is otherwise the third segment of the
\* first account string.
C29_RaisesIffEmptyOrShort ==
    extracted.done =>
        /\ ~extracted.current.ok <=>
              \/ extracted.all = << >>
              \/ RawAccounts # << >> /\ SegmentCount(RawAccounts[1]) < 3
        /\ ReturnsFirstThird

\* C29: the primary address of a session is refused exactly when the
\* session has no account or its first account string has no non-empty
\* third segment, whatever the accounts after it are, and is otherwise the
\* third segment of the first account string.
C29_RaisesIffFirstHasNoAddress ==
    extracted.done =>
        /\ ~extracted.current.ok <=>
              (RawAccounts = << >> \/ ~HasAddress(RawAccounts[1]))
        /\ ReturnsFirstThird

\* refused for "t:c:" in front of a well-formed account
C29_Witness ==
    /\ extracted.done
    /\ ~extracted.current.ok
    /\ extracted.all # << >>
    /\ SegmentCount(RawAccounts[1]) = 3

\* returned from an account string of four segments
C29_ReturnWitness ==
    /\ extracted.done
    /\ extracted.current.ok
    /\ SegmentCount(RawAccounts[1]) = 4
    /\ extracted.current.address = <<"A">>
\* C30: whenever an address is stored, a session is stored and the address
\* is the primary address of that session, the third segment of its first
\* account string; it is never the address of a session stored before.
C30_AddressOfStoredSession ==
    address # Undefined =>
        /\ session # NoSession
        /\ FlatMapAccounts(session.namespaces) # << >>
        /\ HasAddress(FlatMapAccounts(session.namespaces)[1])
        /\ address = ThirdOf(FlatMapAccounts(session.namespaces)[1])
\* connect(), checkConnectStatus() and disconnect()
LifecycleOps == {"connect", "checkConnectStatus", "disconnect"}

NoLifecycleInFlight == \A i \in Calls : calls[i].op \notin LifecycleOps

HandlersRegistered == regUpdate # {} \/ regDelete # {}

\* C31: whenever no connect(), checkConnectStatus() or disconnect() is in
\* flight, an update or delete handler is registered on the client only if
\* a session is stored.
C31_HandlersOnlyWithSession ==
    NoLifecycleInFlight /\ HandlersRegistered => session # NoSession
\* checkConnectStatus() returns {address: ''}
ReportsNoConnection(c) ==
    c.op = "checkConnectStatus" /\ c.result = "ok" /\ c.address = << >>

\* C32: the step in which checkConnectStatus() returns {address: ''} changes
\* neither the stored session, nor the stored address, nor the handlers and
\* their registrations, and emits no event: a session stored before stays
\* stored.
C32_NoConnectionChangesNothing ==
    [][ReportsNoConnection(settled') =>
          /\ UNCHANGED <<session, address, sessionHandlers, regUpdate, regDelete>>
          /\ events' = << >>
          /\ invoked' = << >>
      ]_vars

\* checkConnectStatus() has returned {address: ''} while the adapter holds a
\* session that the transport no longer reports
C32_Witness ==
    /\ ReportsNoConnection(settled)
    /\ session # NoSession
    /\ session.topic \notin TopicsOf(tSessions)

\* as C32_Witness, with an address stored, a client held and the handlers
\* registered: signTransaction() would send a request
C32_SignableWitness ==
    /\ ReportsNoConnection(settled)
    /\ session # NoSession
    /\ address # Undefined
    /\ client # 0
    /\ regUpdate # {}
\* the subscriptions on the two active lists
ActiveSubscriptions == Range(modalStateUnsubscribers) \cup Range(eventUnsubscribers)

\* subscription r was subscribed on the controller and is on no active list
\* any more: its handle was invoked, by disconnect() or by its closure
Released(r) == closures[r].fn /\ r \notin ActiveSubscriptions

\* what the first lines of disconnect() do to the cache
DisconnectReleases ==
    /\ modalStateUnsubscribers' = << >>
    /\ eventUnsubscribers' = << >>
    /\ unsubscribed' = modalStateUnsubscribers \o eventUnsubscribers
    /\ ctlSubs' \cap ActiveSubscriptions = {}
    /\ UNCHANGED <<pendingModalCallbacks, pendingEventCallbacks>>

\* C33: disconnect() invokes the handle of every subscription on the two
\* active lists, empties both lists and leaves the pending queues as they
\* are; a subscription so released is on no list and not subscribed on the
\* controller ever after, whatever connect() does later, and its callback
\* is not invoked again.
C33_DisconnectReleasesForGood ==
    [][/\ DisconnectReleases \/ ~(\E i \in Calls : CallDisconnect(i))
       /\ \A r \in Subs :
             Released(r) =>
                /\ r \notin notified'
                /\ r \notin ctlSubs'
                /\ r \notin Range(modalStateUnsubscribers') \cup Range(eventUnsubscribers')
                /\ r \notin Range(pendingModalCallbacks') \cup Range(pendingEventCallbacks')
      ]_vars

\* disconnect() has released a subscription whose closure was never called;
\* the controller has since notified another callback, subscribed later
C33_Witness ==
    \E r \in Subs :
        /\ Released(r)
        /\ closures[r].called = "never"
        /\ notified # {}
        /\ r \notin notified

\* disconnect() has just released two subscriptions at once
C33_ReleaseWitness ==
    /\ Len(unsubscribed) = 2
    /\ \E i \in Calls : calls[i].op = "disconnect"
    /\ ctlSubs = {}

\* disconnect() before the controller exists has left a pending record in
\* its queue
C33_PendingWitness ==
    /\ settled.op = "disconnect"
    /\ ~appKit
    /\ Len(pendingModalCallbacks) + Len(pendingEventCallbacks) >= 1
====
